---- MODULE Spec2Model ----
(***************************************************************************)
(* Model of the chat front end's streaming core:                           *)
(*   - services/api.js  sendMessageStream  (src/unnamed/part_000)          *)
(*   - App.js           handleSendMessage and its five stream callbacks    *)
(*                      (src/unnamed/part_001, second copy, lines 827 ff.) *)
(*                                                                         *)
(* Text is modelled as a sequence of one-character strings, the response   *)
(* body as a sequence of bytes.  Bytes below 0x80 are written as the       *)
(* character they encode; the two bytes of one two-byte UTF-8 character    *)
(* are written "xC3" and "xA9" and decode to the character "e_acute".      *)
(*                                                                         *)
(* JSON texts are kept short: an event envelope is written                 *)
(*      { <kind letter> <fragment characters> }                            *)
(* and JSONparse computes the envelope {event, data} from that text; every *)
(* other text makes it throw, as JSON.parse does on text that is no JSON.  *)
(***************************************************************************)
EXTENDS Integers, Sequences, FiniteSets, TLC

\* ------------------------------------------------------------------ bounds
\* content frames in a well-formed reply
MaxContent == 2
\* lines of a reply made of arbitrary lines
MaxLines == 2
\* calls of abort() on one handle
MaxAborts == 2
\* REST calls in flight below which the user starts another with a click
MaxPending == 1
\* message loads in flight at a time
MaxLoads == 2

\* ------------------------------------------------------------ text helpers
NL == "\n"
Marker == <<"d", "a", "t", "a", ":", " ">>
Done == <<"[", "D", "O", "N", "E", "]">>
WhiteSpace == {" ", "\r", "\t"}
Lead == "xC3"
Cont == "xA9"
EAcute == "e_acute"
Replacement == "uFFFD"

\* null (a chat id), an absent string field, an absent text field
Null == "null"
NoStr == ""
NoText == <<>>

\* the concatenation of the sequences of ss
RECURSIVE Flatten(_)
Flatten(ss) ==
  IF Len(ss) = 0 THEN <<>>
  ELSE IF Len(ss) = 1 THEN ss[1]
  ELSE Flatten(SubSeq(ss, 1, Len(ss) \div 2))
       \o Flatten(SubSeq(ss, Len(ss) \div 2 + 1, Len(ss)))

\* UTF-8 encoding of text, as the server writes it
Encode(text) ==
  Flatten([i \in 1..Len(text) |->
             IF text[i] = EAcute THEN <<Lead, Cont>> ELSE <<text[i]>>])

\* what the decoder emits for the byte at i: a lead byte followed by its
\* continuation byte is one character, emitted at the lead byte; a lead byte
\* at the end of the input is kept (stream) or replaced (not stream); a
\* misplaced byte is replaced by U+FFFD.
DecodedAt(bytes, i, streaming) ==
  IF bytes[i] = Lead
  THEN IF i = Len(bytes)
       THEN IF streaming THEN <<>> ELSE <<Replacement>>
       ELSE IF bytes[i + 1] = Cont THEN <<EAcute>> ELSE <<Replacement>>
  ELSE IF bytes[i] = Cont
       THEN IF i > 1 /\ bytes[i - 1] = Lead THEN <<>> ELSE <<Replacement>>
       ELSE <<bytes[i]>>

\* TextDecoder.decode of the bytes: [text, pending]
DecodeBytes(bytes, streaming) ==
  [text |-> Flatten([i \in 1..Len(bytes) |-> DecodedAt(bytes, i, streaming)]),
   pending |-> IF streaming /\ bytes # <<>> /\ bytes[Len(bytes)] = Lead
               THEN <<Lead>> ELSE <<>>]

\* mutant: decode without { stream: true }
DecodeNoStream(pending, value) == DecodeBytes(pending \o value, FALSE)

\* decoder.decode(value, { stream: true }) on a decoder holding `pending`
Decode(pending, value) == DecodeBytes(pending \o value, TRUE)

\* String.prototype.split('\n'): always at least one piece
RECURSIVE Split(_)
Split(text) ==
  IF \A i \in 1..Len(text) : text[i] # NL THEN <<text>>
  ELSE \* cut at the first newline
       LET first == CHOOSE i \in 1..Len(text) :
                      text[i] = NL /\ \A j \in 1..(i - 1) : text[j] # NL
       IN  <<SubSeq(text, 1, first - 1)>> \o Split(SubSeq(text, first + 1, Len(text)))

\* lines.pop() leaves the pieces before the last one
Front(s) == SubSeq(s, 1, Len(s) - 1)
Last(s) == s[Len(s)]

StartsWith(text, prefix) ==
  /\ Len(text) >= Len(prefix)
  /\ SubSeq(text, 1, Len(prefix)) = prefix

\* String.prototype.slice(n)
Slice(text, n) == SubSeq(text, n + 1, Len(text))

RECURSIVE TrimStart(_)
TrimStart(text) ==
  IF text # <<>> /\ Head(text) \in WhiteSpace THEN TrimStart(Tail(text)) ELSE text

RECURSIVE TrimEnd(_)
TrimEnd(text) ==
  IF text # <<>> /\ Last(text) \in WhiteSpace THEN TrimEnd(Front(text)) ELSE text

\* String.prototype.trim()
Trim(text) == TrimEnd(TrimStart(text))

\* ---------------------------------------------------------------- JSON
FragChars == {"a", "b", "z", "q", EAcute}
KindLetters == {"U", "T", "C", "K", "E", "P"}

EventOf(letter) ==
  CASE letter = "U" -> "user_message"
    [] letter = "T" -> "thinking"
    [] letter = "C" -> "content"
    [] letter = "K" -> "complete"
    [] letter = "E" -> "error"
    [] OTHER        -> "ping"

IsEnvelopeText(text) ==
  /\ Len(text) >= 3
  /\ text[1] = "{"
  /\ text[2] \in KindLetters
  /\ Last(text) = "}"
  /\ \A i \in 3..(Len(text) - 1) : text[i] \in FragChars

\* the payload object of an envelope; fields the kind does not carry are absent
Payload(id, content, timestamp, message) ==
  [id |-> id, content |-> content, timestamp |-> timestamp, message |-> message]

NoPayload == Payload(NoStr, NoText, NoStr, NoText)

\* JSON.parse followed by the read of event.event: the envelope, or a throw
\* (SyntaxError for text that is no JSON, TypeError for the JSON text null)
JSONparse(text) ==
  IF IsEnvelopeText(text)
  THEN LET frag == SubSeq(text, 3, Len(text) - 1)
           ev == EventOf(text[2])
       IN  [throws |-> FALSE, event |-> ev,
            data |-> CASE ev = "user_message" -> Payload("m1", frag, "T1", NoText)
                       [] ev = "complete" -> Payload("m2", frag, "T2", NoText)
                       [] ev = "content" -> Payload(NoStr, frag, NoStr, NoText)
                       [] ev = "error" -> Payload(NoStr, NoText, NoStr, frag)
                       [] OTHER -> NoPayload]
  ELSE [throws |-> TRUE, event |-> Null, data |-> NoPayload]

\* ------------------------------------------------------- the server's replies
\* the line of one frame
FrameLine(letter, frag) == Marker \o <<"{", letter>> \o frag \o <<"}">>

UserLine == FrameLine("U", <<"q">>)
ThinkingLine == FrameLine("T", <<>>)
CompleteLine == FrameLine("K", <<"z">>)
ErrorLine == FrameLine("E", <<"b">>)
PingLine == FrameLine("P", <<>>)
MalformedLine == Marker \o <<"{", "x">>
NullLine == Marker \o <<"n">>
DoneLine == Marker \o Done

\* the fragment of the i-th content frame
Fragment(i) == IF i % 2 = 1 THEN <<"a">> ELSE <<EAcute, "b">>

ContentLine(i) == FrameLine("C", Fragment(i))

\* the lines of a well-formed stream with k content frames
WellFormedLines(k, terminal) ==
  <<UserLine, ThinkingLine>> \o [i \in 1..k |-> ContentLine(i)] \o <<terminal>>

\* the bytes of a body: every frame line is followed by a blank line
BodyText(lines) == Flatten([i \in 1..Len(lines) |-> lines[i] \o <<NL, NL>>])

BodyOf(lines) == Encode(BodyText(lines))

WellFormedLineSeqs ==
  {WellFormedLines(k, t) : k \in 0..MaxContent, t \in {CompleteLine, ErrorLine}}

Bodies == {BodyOf(ls) : ls \in WellFormedLineSeqs}

\* the lines a server may write, a blank line among them
LineVocabulary ==
  {ContentLine(2), CompleteLine, ErrorLine, PingLine, MalformedLine, NullLine,
   DoneLine, <<>>}

LineSeqs == UNION {[1..k -> LineVocabulary] : k \in 0..MaxLines}

\* the lines, each followed by a newline
Joined(lines) == Flatten([i \in 1..Len(lines) |-> lines[i] \o <<NL>>])

FrameBodies == {Encode(Joined(ls)) : ls \in LineSeqs}

\* the sentinel line as a server may write it, padded and with a carriage
\* return before the newline
DonePadded == Marker \o <<" ">> \o Done \o <<" ", "\r">>

\* the lines of a body with sentinel lines
DoneVocabulary == {DoneLine, DonePadded, ContentLine(2), CompleteLine}

DoneLineSeqs == UNION {[1..k -> DoneVocabulary] : k \in 1..MaxLines}

DoneBodies == {Encode(Joined(ls)) : ls \in DoneLineSeqs}

\* lines that do not start with the marker: a comment line, a frame line
\* after a blank, a frame line whose marker lacks the blank
CommentLine == <<":", " ", "p">>
IndentedLine == <<" ">> \o CompleteLine
NoSpaceLine == <<"d", "a", "t", "a", ":">> \o <<"{", "K", "z", "}">>

\* a frame line with white space around its payload and a carriage return
\* before the newline
PaddedLine == Marker \o <<" ", "\t">> \o <<"{", "E", "b", "}">> \o <<" ", "\r">>

\* the lines of a body with lines that are no frames
MarkerVocabulary ==
  {<<>>, CommentLine, IndentedLine, NoSpaceLine, PaddedLine, CompleteLine}

MarkerLineSeqs == UNION {[1..k -> MarkerVocabulary] : k \in 1..MaxLines}

MarkerBodies == {Encode(Joined(ls)) : ls \in MarkerLineSeqs}

\* the lines of a body with thinking and content frames in any order
OrderVocabulary == {ThinkingLine, ContentLine(1), CompleteLine}

OrderLineSeqs == UNION {[1..k -> OrderVocabulary] : k \in 1..MaxLines}

OrderBodies == {Encode(Joined(ls)) : ls \in OrderLineSeqs}

\* the lines of a body that ends without a newline
TailVocabulary == {ContentLine(2), CompleteLine, ErrorLine, MalformedLine}

TailLineSeqs == UNION {[1..k -> TailVocabulary] : k \in 1..MaxLines}

\* the lines, all but the last followed by a newline
Unterminated(lines) == Joined(Front(lines)) \o Last(lines)

TailBodies == {Encode(Unterminated(ls)) : ls \in TailLineSeqs}

\* a reply: the transport fails ("network"), or a response arrives whose
\* status is success ("ok") or not ("http"), with its body
Reply(status, body) == [status |-> status, body |-> body]

Replies ==
  {Reply("ok", b) : b \in Bodies}
  \cup {Reply("http", BodyOf(WellFormedLines(0, CompleteLine))), Reply("network", <<>>)}

NetworkMessage == <<"Failed to fetch">>
StatusText == <<"Not Found">>

\* ------------------------------------------------------------------- state
StreamIds == {1, 2, 3}
TempIds == <<"temp-1", "temp-2", "temp-3">>

VARIABLES
  messages,       \* App: the displayed message list
  inputValue,     \* App: text of the input box
  isStreaming,    \* App
  error,          \* App: the error banner, ErrNull when null
  currentChatId,  \* App
  chats,          \* App: ids of the chats of the sidebar
  loading,        \* App
  pending,        \* REST calls in flight, with what their continuation closes over
  created,        \* chats the server has created
  sends,          \* sends accepted by handleSendMessage
  stream,         \* per call of sendMessageStream: its state
  script,         \* what the server will answer to the coming sends
  typing          \* what the user will type into the input box

vars == <<messages, inputValue, isStreaming, error, currentChatId, chats,
          loading, pending, created, sends, stream, script, typing>>

appVars == <<messages, inputValue, isStreaming, error, currentChatId, chats,
             loading, pending, created>>

ErrNull == <<>>

\* a call of sendMessageStream: where its promise chain stands (pc), the
\* request, the reply, the bytes read so far (pos), the decoder's held bytes,
\* the buffer, the abort signal, the log of what happened on the handle and
\* the callbacks (calls), the message list at the time of the call (base),
\* the network requests issued (requests) and the texts given to JSON.parse
\* (parsed)
IdleStream ==
  [pc |-> "idle", chatId |-> Null, content |-> NoText, reply |-> Reply("network", <<>>),
   pos |-> 0, pendingBytes |-> <<>>, buffer |-> NoText,
   aborted |-> FALSE, aborts |-> 0, calls |-> <<>>, ended |-> "no", base |-> <<>>,
   requests |-> <<>>, parsed |-> <<>>]

\* the request of sendMessageStream(chatId, content, ...):
\* fetch(`.../api/chats/${chatId}/messages`, {method: 'POST', body: {content}})
Fetch(chatId, content) ==
  [method |-> "POST", chat |-> chatId, resource |-> "messages", body |-> content]

\* ---------------------------------------------------------------- the App
Now == "now"

Msg(id, role, content, timestamp, isThinking) ==
  [id |-> id, role |-> role, content |-> content, timestamp |-> timestamp,
   isThinking |-> isThinking]

\* a REST call in flight: the call, the chat it is about, the currentChatId
\* its continuation closes over, whether loadChats awaits it, the response
\* ("none" until it arrives) and the chats its continuation closes over
Op(kind, chatId, closure, inLoadChats) ==
  [kind |-> kind, chatId |-> chatId, closure |-> closure, inLoadChats |-> inLoadChats,
   response |-> "none", chats |-> <<>>]

RemoveAt(seq, i) == SubSeq(seq, 1, i - 1) \o SubSeq(seq, i + 1, Len(seq))

\* mutant: onUserMessage puts the user message at the head of the list
OnUserMessagePrepends(prev, userMsg) ==
  <<Msg(userMsg.id, "user", userMsg.content, userMsg.timestamp, FALSE)>> \o prev

\* the updater of onUserMessage
OnUserMessage(prev, userMsg) ==
  Append(prev, Msg(userMsg.id, "user", userMsg.content, userMsg.timestamp, FALSE))

\* the updater of onThinking
OnThinking(prev, tempAssistantId) ==
  Append(prev, Msg(tempAssistantId, "assistant", NoText, Now, TRUE))

\* mutant: onContent does not filter the thinking placeholder out
OnContentKeepsPlaceholder(prev, tempAssistantId, chunk) ==
  LET existing == \E i \in 1..Len(prev) : prev[i].id = tempAssistantId
  IN  IF existing
      THEN [i \in 1..Len(prev) |->
              IF prev[i].id = tempAssistantId
              THEN [prev[i] EXCEPT !.content = @ \o chunk.content]
              ELSE prev[i]]
      ELSE Append(prev, Msg(tempAssistantId, "assistant", chunk.content, Now, FALSE))

\* the updater of onContent
OnContent(prev, tempAssistantId, chunk) ==
  LET filtered == SelectSeq(prev, LAMBDA msg : msg.id # tempAssistantId \/ ~msg.isThinking)
      existing == \E i \in 1..Len(filtered) : filtered[i].id = tempAssistantId
  IN  IF existing
      THEN [i \in 1..Len(filtered) |->
              IF filtered[i].id = tempAssistantId
              THEN [filtered[i] EXCEPT !.content = @ \o chunk.content]
              ELSE filtered[i]]
      ELSE Append(filtered, Msg(tempAssistantId, "assistant", chunk.content, Now, FALSE))

\* mutant: onComplete appends the final message and keeps the temporary one
OnCompleteKeepsTemp(prev, tempAssistantId, completeMsg) ==
  Append(prev,
         Msg(completeMsg.id, "assistant", completeMsg.content, completeMsg.timestamp, FALSE))

\* the updater of onComplete
OnComplete(prev, tempAssistantId, completeMsg) ==
  Append(SelectSeq(prev, LAMBDA msg : msg.id # tempAssistantId),
         Msg(completeMsg.id, "assistant", completeMsg.content, completeMsg.timestamp, FALSE))

\* mutant: onError removes the thinking placeholder only
OnErrorKeepsPartial(prev, tempAssistantId) ==
  SelectSeq(prev, LAMBDA msg : ~(msg.id = tempAssistantId /\ msg.isThinking))

\* mutant: onError takes the user's messages back too
OnErrorDropsUser(prev, tempAssistantId) ==
  SelectSeq(prev, LAMBDA msg : msg.id # tempAssistantId /\ msg.role # "user")

\* the updater of onError
OnError(prev, tempAssistantId) ==
  SelectSeq(prev, LAMBDA msg : msg.id # tempAssistantId)

SendErrorText(errorData) == <<"Failed to send message: ">> \o errorData.message

\* the state the callbacks of a send write
View(m, st, e, l, p) ==
  [messages |-> m, isStreaming |-> st, error |-> e, loading |-> l, pending |-> p]

Call(cb, arg) == [cb |-> cb, arg |-> arg]

AbortCall == Call("abort", NoPayload)

\* the callback `call.cb` of the send with this temporary id, issued for
\* chatId, run on the state v
Callback(v, tempAssistantId, chatId, call) ==
  CASE call.cb = "onUserMessage" ->
         [v EXCEPT !.messages = OnUserMessage(@, call.arg)]
    [] call.cb = "onThinking" ->
         [v EXCEPT !.messages = OnThinking(@, tempAssistantId)]
    [] call.cb = "onContent" ->
         [v EXCEPT !.messages = OnContent(@, tempAssistantId, call.arg)]
    [] call.cb = "onComplete" ->
         \* the last three are loadChats(), up to its await
         [v EXCEPT !.messages = OnComplete(@, tempAssistantId, call.arg),
                   !.isStreaming = FALSE,
                   !.loading = TRUE,
                   !.error = ErrNull,
                   !.pending = Append(@, Op("getAllChats", Null, chatId, FALSE))]
    [] call.cb = "onError" ->
         [v EXCEPT !.error = SendErrorText(call.arg),
                   !.messages = OnError(@, tempAssistantId),
                   !.isStreaming = FALSE]
    [] OTHER -> v

\* the callbacks of `seq` run one after the other
RECURSIVE RunCalls(_, _, _, _)
RunCalls(v, tempAssistantId, chatId, seq) ==
  IF seq = <<>> THEN v
  ELSE RunCalls(Callback(v, tempAssistantId, chatId, Head(seq)),
                tempAssistantId, chatId, Tail(seq))

\* the App's state after stream s has called `seq`
Called(s, seq) ==
  LET v == RunCalls(View(messages, isStreaming, error, loading, pending),
                    TempIds[s], stream[s].chatId, seq)
  IN  /\ messages' = v.messages
      /\ isStreaming' = v.isStreaming
      /\ error' = v.error
      /\ loading' = v.loading
      /\ pending' = v.pending

\* mutant: handleSendMessage sends the trimmed text
HandleSendMessageTrims ==
  IF Trim(inputValue) = NoText \/ isStreaming \/ currentChatId = Null
  THEN UNCHANGED vars
  ELSE /\ script # <<>>
       /\ sends < Cardinality(StreamIds)
       /\ inputValue' = NoText
       /\ isStreaming' = TRUE
       /\ error' = ErrNull
       /\ sends' = sends + 1
       /\ stream' = [stream EXCEPT ![sends + 1] =
                       [IdleStream EXCEPT !.pc = "fetch", !.chatId = currentChatId,
                                          !.content = Trim(inputValue), !.reply = Head(script),
                                          !.base = messages,
                                          !.requests = <<Fetch(currentChatId, Trim(inputValue))>>]]
       /\ script' = Tail(script)
       /\ UNCHANGED <<messages, currentChatId, chats, loading, pending, created, typing>>

\* mutant: handleSendMessage shows a local copy of the user's message
HandleSendMessageOptimistic ==
  IF Trim(inputValue) = NoText \/ isStreaming \/ currentChatId = Null
  THEN UNCHANGED vars
  ELSE /\ script # <<>>
       /\ sends < Cardinality(StreamIds)
       /\ inputValue' = NoText
       /\ isStreaming' = TRUE
       /\ error' = ErrNull
       /\ sends' = sends + 1
       /\ messages' = Append(messages, Msg("local", "user", inputValue, Now, FALSE))
       /\ stream' = [stream EXCEPT ![sends + 1] =
                       [IdleStream EXCEPT !.pc = "fetch", !.chatId = currentChatId,
                                          !.content = inputValue, !.reply = Head(script),
                                          !.base = messages,
                                          !.requests = <<Fetch(currentChatId, inputValue)>>]]
       /\ script' = Tail(script)
       /\ UNCHANGED <<currentChatId, chats, loading, pending, created, typing>>

\* handleSendMessage
HandleSendMessage ==
  IF Trim(inputValue) = NoText \/ isStreaming \/ currentChatId = Null
  THEN UNCHANGED vars
  ELSE /\ script # <<>>
       /\ sends < Cardinality(StreamIds)
       /\ inputValue' = NoText
       /\ isStreaming' = TRUE
       /\ error' = ErrNull
       /\ sends' = sends + 1
       /\ stream' = [stream EXCEPT ![sends + 1] =
                       [IdleStream EXCEPT !.pc = "fetch", !.chatId = currentChatId,
                                          !.content = inputValue, !.reply = Head(script),
                                          !.base = messages,
                                          !.requests = <<Fetch(currentChatId, inputValue)>>]]
       /\ script' = Tail(script)
       /\ UNCHANGED <<messages, currentChatId, chats, loading, pending, created, typing>>

\* the textarea's onChange; the textarea is disabled while no chat is selected
Inputs == {NoText, <<" ">>, <<"H", "i">>}

SetInputValue ==
  /\ typing # <<>>
  /\ currentChatId # Null
  /\ inputValue' = Head(typing)
  /\ typing' = Tail(typing)
  /\ UNCHANGED <<messages, isStreaming, error, currentChatId, chats, loading,
                 pending, created, sends, stream, script>>

\* ------------------------------------------------------ sendMessageStream
\* mutant: a payload that does not parse is reported through onError
LineCallReportsParseError(line) ==
  IF StartsWith(line, Marker)
  THEN LET data == Trim(Slice(line, Len(Marker)))
       IN  IF data = Done
           THEN <<>>
           ELSE LET event == JSONparse(data)
                IN  CASE event.throws ->
                           <<Call("onError", Payload(NoStr, NoText, NoStr, <<"parse">>))>>
                      [] event.event = "user_message" -> <<Call("onUserMessage", event.data)>>
                      [] event.event = "thinking" -> <<Call("onThinking", NoPayload)>>
                      [] event.event = "content" -> <<Call("onContent", event.data)>>
                      [] event.event = "complete" -> <<Call("onComplete", event.data)>>
                      [] event.event = "error" -> <<Call("onError", event.data)>>
                      [] OTHER -> <<>>
  ELSE <<>>

\* mutant: an unknown event kind is reported through onError
LineCallReportsUnknown(line) ==
  IF StartsWith(line, Marker)
  THEN LET data == Trim(Slice(line, Len(Marker)))
       IN  IF data = Done
           THEN <<>>
           ELSE LET event == JSONparse(data)
                IN  CASE event.throws -> <<>>
                      [] event.event = "user_message" -> <<Call("onUserMessage", event.data)>>
                      [] event.event = "thinking" -> <<Call("onThinking", NoPayload)>>
                      [] event.event = "content" -> <<Call("onContent", event.data)>>
                      [] event.event = "complete" -> <<Call("onComplete", event.data)>>
                      [] event.event = "error" -> <<Call("onError", event.data)>>
                      [] OTHER -> <<Call("onError", Payload(NoStr, NoText, NoStr, <<"unknown">>))>>
  ELSE <<>>

\* mutant: the line is trimmed before the test for the marker
LineCallTrimsLine(line) ==
  IF StartsWith(Trim(line), Marker)
  THEN LET data == Trim(Slice(Trim(line), Len(Marker)))
       IN  IF data = Done
           THEN <<>>
           ELSE LET event == JSONparse(data)
                IN  CASE event.throws -> <<>>
                      [] event.event = "user_message" -> <<Call("onUserMessage", event.data)>>
                      [] event.event = "thinking" -> <<Call("onThinking", NoPayload)>>
                      [] event.event = "content" -> <<Call("onContent", event.data)>>
                      [] event.event = "complete" -> <<Call("onComplete", event.data)>>
                      [] event.event = "error" -> <<Call("onError", event.data)>>
                      [] OTHER -> <<>>
  ELSE <<>>

\* what one line of a chunk makes the loop do: call a callback, or nothing
\* (no marker, the [DONE] sentinel, a throw caught by the catch, an unknown
\* event kind)
LineCall(line) ==
  IF StartsWith(line, Marker)
  THEN LET data == Trim(Slice(line, Len(Marker)))
       IN  IF data = Done
           THEN <<>>
           ELSE LET event == JSONparse(data)
                IN  CASE event.throws -> <<>>
                      [] event.event = "user_message" -> <<Call("onUserMessage", event.data)>>
                      [] event.event = "thinking" -> <<Call("onThinking", NoPayload)>>
                      [] event.event = "content" -> <<Call("onContent", event.data)>>
                      [] event.event = "complete" -> <<Call("onComplete", event.data)>>
                      [] event.event = "error" -> <<Call("onError", event.data)>>
                      [] OTHER -> <<>>
  ELSE <<>>

\* mutant: the payload is given to JSON.parse without a look at the sentinel
LineParseNoSentinel(line) ==
  IF StartsWith(line, Marker) THEN <<Trim(Slice(line, Len(Marker)))>> ELSE <<>>

\* what one line of a chunk makes the loop give to JSON.parse: the payload of
\* a data line that is not the [DONE] sentinel
LineParse(line) ==
  IF StartsWith(line, Marker)
  THEN LET data == Trim(Slice(line, Len(Marker)))
       IN  IF data = Done THEN <<>> ELSE <<data>>
  ELSE <<>>

\* the texts the loop gives to JSON.parse, in order
LineParses(lines) == Flatten([i \in 1..Len(lines) |-> LineParse(lines[i])])

\* mutant: the lines of a chunk are dispatched last to first
RECURSIVE LineCallsReversed(_)
LineCallsReversed(lines) ==
  IF lines = <<>> THEN <<>> ELSE LineCallsReversed(Tail(lines)) \o LineCall(Head(lines))

\* `for (const line of lines)`: the callbacks called, in order
RECURSIVE LineCalls(_)
LineCalls(lines) ==
  IF lines = <<>> THEN <<>> ELSE LineCall(Head(lines)) \o LineCalls(Tail(lines))

\* mutant: .catch reports every rejection, an AbortError too
CatchReportsAbort(s, name, message) ==
  LET call == Call("onError", Payload(NoStr, NoText, NoStr, message))
  IN  /\ stream' = [stream EXCEPT ![s].pc = "done",
                                  ![s].ended = IF name = "AbortError" THEN "abort" ELSE "error",
                                  ![s].calls = Append(@, call)]
      /\ Called(s, <<call>>)

\* mutant: .catch issues the request again when the failure is not an abort
CatchRetries(s, name, message) ==
  IF name = "AbortError"
  THEN /\ stream' = [stream EXCEPT ![s].pc = "done", ![s].ended = "abort"]
       /\ UNCHANGED <<messages, isStreaming, error, loading, pending>>
  ELSE /\ stream' = IF Len(stream[s].requests) < 2
                     THEN [stream EXCEPT
                             ![s].pc = "fetch",
                             ![s].requests =
                               Append(@, Fetch(stream[s].chatId, stream[s].content))]
                     ELSE [stream EXCEPT ![s].pc = "done", ![s].ended = "error"]
       /\ UNCHANGED <<messages, isStreaming, error, loading, pending>>

\* the handler of .catch
Catch(s, name, message) ==
  IF name = "AbortError"
  THEN /\ stream' = [stream EXCEPT ![s].pc = "done", ![s].ended = "abort"]
       /\ UNCHANGED <<messages, isStreaming, error, loading, pending>>
  ELSE LET call == Call("onError", Payload(NoStr, NoText, NoStr, message))
       IN  /\ stream' = [stream EXCEPT ![s].pc = "done", ![s].ended = "error",
                                       ![s].calls = Append(@, call)]
           /\ Called(s, <<call>>)

\* mutant: the status of the response is not looked at
ResponseOkIgnored(reply) == TRUE

\* response.ok
ResponseOk(reply) == reply.status = "ok"

\* fetch settles: it rejects (aborted, or the transport failed), or the
\* response arrives and .then runs up to the first reader.read()
FetchSettles(s) ==
  /\ stream[s].pc = "fetch"
  /\ IF stream[s].aborted
     THEN Catch(s, "AbortError", NoText)
     ELSE IF stream[s].reply.status = "network"
     THEN Catch(s, "TypeError", NetworkMessage)
     ELSE IF ~ResponseOk(stream[s].reply)
     THEN Catch(s, "Error", <<"Failed to send message: ">> \o StatusText)
     ELSE /\ stream' = [stream EXCEPT ![s].pc = "read", ![s].buffer = NoText]
          /\ UNCHANGED <<messages, isStreaming, error, loading, pending>>
  /\ UNCHANGED <<inputValue, currentChatId, chats, created, sends, script, typing>>

\* mutant: the [DONE] sentinel ends the loop, the lines after it in the
\* chunk are not looked at
ReadChunkStopsAtDone(s, n, mayAbort) ==
  /\ stream[s].pc = "read"
  /\ ~stream[s].aborted
  /\ stream[s].pos + n <= Len(stream[s].reply.body)
  /\ \E decoded \in {Decode(stream[s].pendingBytes,
                           SubSeq(stream[s].reply.body, stream[s].pos + 1, stream[s].pos + n))} :
     \E lines \in {Split(stream[s].buffer \o decoded.text)} :
     LET sentinels == {i \in 1..(Len(lines) - 1) :
                         /\ StartsWith(lines[i], Marker)
                         /\ Trim(Slice(lines[i], Len(Marker))) = Done}
         examined == IF sentinels = {} THEN Front(lines)
                     ELSE SubSeq(lines, 1, (CHOOSE i \in sentinels :
                                             \A j \in sentinels : i <= j) - 1)
         called == LineCalls(examined)
     IN  /\ stream' = [stream EXCEPT
              ![s].pc = IF sentinels = {} THEN "read" ELSE "done",
              ![s].ended = IF sentinels = {} THEN "no" ELSE "eof",
              ![s].pos = @ + n,
              ![s].pendingBytes = decoded.pending,
              ![s].buffer = Last(lines),
              ![s].calls = @ \o called,
              ![s].parsed = @ \o LineParses(examined)]
         /\ Called(s, called)
  /\ UNCHANGED <<inputValue, currentChatId, chats, created, sends, script, typing>>

\* mutant: the text of a chunk is split by itself, what the chunk before left
\* unterminated is not put in front of it
ReadChunkNoCarry(s, n, mayAbort) ==
  /\ stream[s].pc = "read"
  /\ ~stream[s].aborted
  /\ stream[s].pos + n <= Len(stream[s].reply.body)
  /\ \E decoded \in {Decode(stream[s].pendingBytes,
                           SubSeq(stream[s].reply.body, stream[s].pos + 1, stream[s].pos + n))} :
     \E lines \in {Split(decoded.text)} :
     \E called \in {LineCalls(Front(lines))} :
       /\ stream' = [stream EXCEPT
            ![s].pos = @ + n,
            ![s].pendingBytes = decoded.pending,
            ![s].buffer = Last(lines),
            ![s].calls = @ \o called,
            ![s].parsed = @ \o LineParses(Front(lines))]
       /\ Called(s, called)
  /\ UNCHANGED <<inputValue, currentChatId, chats, created, sends, script, typing>>

\* mutant: the buffer is a variable of the module, shared by all calls
ReadChunkSharedBuffer(s, n, mayAbort) ==
  /\ stream[s].pc = "read"
  /\ ~stream[s].aborted
  /\ stream[s].pos + n <= Len(stream[s].reply.body)
  /\ \E decoded \in {Decode(stream[s].pendingBytes,
                           SubSeq(stream[s].reply.body, stream[s].pos + 1, stream[s].pos + n))} :
     \E lines \in {Split(stream[1].buffer \o decoded.text)} :
     \E called \in {LineCalls(Front(lines))} :
       /\ stream' = [stream EXCEPT
            ![s].pos = @ + n,
            ![s].pendingBytes = decoded.pending,
            ![s].calls = @ \o called,
            ![1].buffer = Last(lines)]
       /\ Called(s, called)
  /\ UNCHANGED <<inputValue, currentChatId, chats, created, sends, script, typing>>

\* reader.read() resolves with the next n bytes: the chunk is decoded, the
\* buffer split, the last piece kept and the lines before it dispatched.
\* The callbacks are the caller's: those of a caller that may abort from a
\* callback (mayAbort) are such that the abortAt-th one called for this chunk
\* calls abort() on the handle (none when abortAt = 0).
ReadChunkOf(s, n, mayAbort) ==
  /\ stream[s].pc = "read"
  /\ ~stream[s].aborted
  /\ stream[s].pos + n <= Len(stream[s].reply.body)
  /\ \E decoded \in {Decode(stream[s].pendingBytes,
                           SubSeq(stream[s].reply.body, stream[s].pos + 1, stream[s].pos + n))} :
     \E lines \in {Split(stream[s].buffer \o decoded.text)} :
     \E called \in {LineCalls(Front(lines))} :
       /\ \E abortAt \in 0..(IF mayAbort THEN Len(called) ELSE 0) :
            stream' = [stream EXCEPT
              ![s].pos = @ + n,
              ![s].pendingBytes = decoded.pending,
              ![s].buffer = Last(lines),
              ![s].aborted = abortAt > 0,
              ![s].aborts = IF abortAt > 0 THEN @ + 1 ELSE @,
              ![s].calls = @ \o (IF abortAt > 0
                                 THEN SubSeq(called, 1, abortAt) \o <<AbortCall>>
                                      \o SubSeq(called, abortAt + 1, Len(called))
                                 ELSE called),
              ![s].parsed = @ \o LineParses(Front(lines))]
       /\ Called(s, called)
  /\ UNCHANGED <<inputValue, currentChatId, chats, created, sends, script, typing>>

\* the chunk handler under a caller whose callbacks may call abort()
ReadChunk(s, n) == ReadChunkOf(s, n, TRUE)

\* a callback has thrown
ThrowCall == Call("throw", NoPayload)

\* mutant: what a callback throws leaves the loop and rejects the chain
ReadChunkThrowRejects(s, n) ==
  /\ stream[s].pc = "read"
  /\ ~stream[s].aborted
  /\ stream[s].pos + n <= Len(stream[s].reply.body)
  /\ \E decoded \in {Decode(stream[s].pendingBytes,
                           SubSeq(stream[s].reply.body, stream[s].pos + 1, stream[s].pos + n))} :
     \E lines \in {Split(stream[s].buffer \o decoded.text)} :
     \E called \in {LineCalls(Front(lines))} :
     \E thrownAt \in 0..Len(called) : \E applied \in BOOLEAN :
       LET report == Call("onError", Payload(NoStr, NoText, NoStr, <<"thrown">>))
           ran == IF thrownAt = 0 THEN called
                  ELSE SubSeq(called, 1, IF applied THEN thrownAt ELSE thrownAt - 1)
                       \o <<report>>
       IN  /\ stream' = [stream EXCEPT
                ![s].pc = IF thrownAt = 0 THEN "read" ELSE "done",
                ![s].ended = IF thrownAt = 0 THEN "no" ELSE "error",
                ![s].pos = @ + n,
                ![s].pendingBytes = decoded.pending,
                ![s].buffer = Last(lines),
                ![s].calls = @ \o (IF thrownAt = 0 THEN called
                                   ELSE SubSeq(called, 1, thrownAt) \o <<ThrowCall, report>>),
                ![s].parsed = @ \o LineParses(Front(lines))]
           /\ Called(s, ran)
  /\ UNCHANGED <<inputValue, currentChatId, chats, created, sends, script, typing>>

\* the chunk handler under a caller one of whose callbacks may throw, before
\* or after it has had its effect: the catch of the loop logs it and the
\* loop goes to the next line
ReadChunkThrows(s, n) ==
  /\ stream[s].pc = "read"
  /\ ~stream[s].aborted
  /\ stream[s].pos + n <= Len(stream[s].reply.body)
  /\ \E decoded \in {Decode(stream[s].pendingBytes,
                           SubSeq(stream[s].reply.body, stream[s].pos + 1, stream[s].pos + n))} :
     \E lines \in {Split(stream[s].buffer \o decoded.text)} :
     \E called \in {LineCalls(Front(lines))} :
     \E thrownAt \in 0..Len(called) : \E applied \in BOOLEAN :
       LET ran == IF thrownAt = 0 \/ applied THEN called
                  ELSE SubSeq(called, 1, thrownAt - 1)
                       \o SubSeq(called, thrownAt + 1, Len(called))
       IN  /\ stream' = [stream EXCEPT
                ![s].pos = @ + n,
                ![s].pendingBytes = decoded.pending,
                ![s].buffer = Last(lines),
                ![s].calls = @ \o (IF thrownAt = 0 THEN called
                                   ELSE SubSeq(called, 1, thrownAt) \o <<ThrowCall>>
                                        \o SubSeq(called, thrownAt + 1, Len(called))),
                ![s].parsed = @ \o LineParses(Front(lines))]
           /\ Called(s, ran)
  /\ UNCHANGED <<inputValue, currentChatId, chats, created, sends, script, typing>>

\* mutant: at the end of the body what is left in the buffer is dispatched
ReadDoneFlushes(s) ==
  /\ stream[s].pc = "read"
  /\ ~stream[s].aborted
  /\ stream[s].pos = Len(stream[s].reply.body)
  /\ stream' = [stream EXCEPT ![s].pc = "done", ![s].ended = "eof",
                              ![s].calls = @ \o LineCall(stream[s].buffer)]
  /\ Called(s, LineCall(stream[s].buffer))
  /\ UNCHANGED <<inputValue, currentChatId, chats, created, sends, script, typing>>

\* reader.read() resolves with done: the loop breaks
ReadDone(s) ==
  /\ stream[s].pc = "read"
  /\ ~stream[s].aborted
  /\ stream[s].pos = Len(stream[s].reply.body)
  /\ stream' = [stream EXCEPT ![s].pc = "done", ![s].ended = "eof"]
  /\ UNCHANGED <<appVars, sends, script, typing>>

\* reader.read() rejects because the signal is aborted
ReadAborted(s) ==
  /\ stream[s].pc = "read"
  /\ stream[s].aborted
  /\ Catch(s, "AbortError", NoText)
  /\ UNCHANGED <<inputValue, currentChatId, chats, created, sends, script, typing>>


\* mutant: the failure of a read is reported and the loop reads on
ReadFailsKeepsReading(s) ==
  /\ stream[s].pc = "read"
  /\ ~stream[s].aborted
  /\ stream[s].ended = "no"
  /\ LET call == Call("onError", Payload(NoStr, NoText, NoStr, NetworkMessage))
     IN  /\ stream' = [stream EXCEPT ![s].ended = "error", ![s].calls = Append(@, call)]
         /\ Called(s, <<call>>)
  /\ UNCHANGED <<inputValue, currentChatId, chats, created, sends, script, typing>>

\* reader.read() rejects because the transport failed
ReadFails(s) ==
  /\ stream[s].pc = "read"
  /\ ~stream[s].aborted
  /\ Catch(s, "TypeError", NetworkMessage)
  /\ UNCHANGED <<inputValue, currentChatId, chats, created, sends, script, typing>>

\* mutant: abort() on a handle whose stream has ended rejects the settled
\* chain, and the rejection is reported to the caller
AbortAfterEndReports(s) ==
  /\ stream[s].pc # "idle"
  /\ stream[s].aborts < MaxAborts
  /\ IF stream[s].pc = "done"
     THEN LET call == Call("onError", Payload(NoStr, NoText, NoStr, <<"aborted">>))
          IN  /\ stream' = [stream EXCEPT ![s].aborted = TRUE, ![s].aborts = @ + 1,
                                          ![s].calls = @ \o <<AbortCall, call>>]
              /\ Called(s, <<call>>)
              /\ UNCHANGED <<inputValue, currentChatId, chats, created, sends, script, typing>>
     ELSE /\ stream' = [stream EXCEPT ![s].aborted = TRUE, ![s].aborts = @ + 1,
                                      ![s].calls = Append(@, AbortCall)]
          /\ UNCHANGED <<appVars, sends, script, typing>>

\* mutant: abort() on an aborted handle reports an error to the caller
AbortReportsAgain(s) ==
  /\ stream[s].pc # "idle"
  /\ stream[s].aborts < MaxAborts
  /\ IF stream[s].aborted
     THEN LET call == Call("onError", Payload(NoStr, NoText, NoStr, <<"aborted">>))
          IN  /\ stream' = [stream EXCEPT ![s].aborts = @ + 1,
                                          ![s].calls = @ \o <<AbortCall, call>>]
              /\ Called(s, <<call>>)
              /\ UNCHANGED <<inputValue, currentChatId, chats, created, sends, script, typing>>
     ELSE /\ stream' = [stream EXCEPT ![s].aborted = TRUE, ![s].aborts = @ + 1,
                                      ![s].calls = Append(@, AbortCall)]
          /\ UNCHANGED <<appVars, sends, script, typing>>

\* handle.abort(), called between two handlers
Abort(s) ==
  /\ stream[s].pc # "idle"
  /\ stream[s].aborts < MaxAborts
  /\ stream' = [stream EXCEPT ![s].aborted = TRUE, ![s].aborts = @ + 1,
                              ![s].calls = Append(@, AbortCall)]
  /\ UNCHANGED <<appVars, sends, script, typing>>

\* ------------------------------------------------------ the REST functions
ApiCalls == {"getAllChats", "createChat", "getChat", "updateChat", "deleteChat", "getMessages"}

\* how a request ends: a response with a success status, a response with
\* another status, no response
Statuses == {"ok", "http", "network"}

\* the text of the Error each function throws on a status that is not success
ApiFailure(fn) ==
  CASE fn = "getAllChats" -> <<"Failed to fetch chats: ">>
    [] fn = "createChat" -> <<"Failed to create chat: ">>
    [] fn = "getChat" -> <<"Failed to fetch chat: ">>
    [] fn = "updateChat" -> <<"Failed to update chat: ">>
    [] fn = "deleteChat" -> <<"Failed to delete chat: ">>
    [] OTHER -> <<"Failed to fetch messages: ">>

\* mutant: the status of the response is not looked at, its body is returned
ApiCallIgnoresStatus(fn, status) ==
  IF status = "network"
  THEN [throws |-> TRUE, message |-> NetworkMessage]
  ELSE [throws |-> FALSE, message |-> NoText]

\* one of the six functions, called and answered with `status`: fetch rejects,
\* or the function throws on !response.ok, or it returns the parsed body
ApiCall(fn, status) ==
  IF status = "network"
  THEN [throws |-> TRUE, message |-> NetworkMessage]
  ELSE IF status # "ok"
  THEN [throws |-> TRUE, message |-> ApiFailure(fn) \o StatusText]
  ELSE [throws |-> FALSE, message |-> NoText]

\* ------------------------------------------------- the App's REST handlers
NewChatIds == <<"c2", "c3">>
FetchedChats == {<<>>, <<"c1">>}
StoredMessages == {<<>>, <<Msg("m0", "user", <<"q">>, "T0", FALSE)>>}

\* the response to the REST call pending[i] arrives
Responds(i, status) ==
  /\ i \in 1..Len(pending)
  /\ pending[i].response = "none"
  /\ pending' = [pending EXCEPT ![i].response = status]
  /\ UNCHANGED <<messages, inputValue, isStreaming, error, currentChatId, chats,
                 loading, created, sends, stream, script, typing>>

\* the REST call pending[i] is `kind` and its response has arrived
Answered(i, kind) ==
  /\ i \in 1..Len(pending)
  /\ pending[i].kind = kind
  /\ pending[i].response # "none"

\* the effect on [currentChatId]: a changed, non-null id starts loadMessages
AfterSelect(ops, chatId) ==
  IF chatId # currentChatId /\ chatId # Null
  THEN Append(ops, Op("getMessages", chatId, Null, FALSE))
  ELSE ops

\* mutant: loadChats selects the last of the fetched chats
GetAllChatsSettlesLast(i, fetchedChats) ==
  /\ Answered(i, "getAllChats")
  /\ IF ~ApiCall("getAllChats", pending[i].response).throws
     THEN /\ chats' = fetchedChats
          /\ IF pending[i].closure = Null /\ fetchedChats # <<>>
             THEN /\ currentChatId' = Last(fetchedChats)
                  /\ pending' = AfterSelect(RemoveAt(pending, i), Last(fetchedChats))
                  /\ loading' = FALSE
             ELSE IF fetchedChats = <<>>
             THEN /\ pending' = Append(RemoveAt(pending, i), Op("createChat", Null, Null, TRUE))
                  /\ UNCHANGED <<currentChatId, loading>>
             ELSE /\ pending' = RemoveAt(pending, i)
                  /\ loading' = FALSE
                  /\ UNCHANGED currentChatId
          /\ UNCHANGED error
     ELSE /\ error' = <<"Failed to load chats: ">>
                         \o ApiCall("getAllChats", pending[i].response).message
          /\ loading' = FALSE
          /\ pending' = RemoveAt(pending, i)
          /\ UNCHANGED <<chats, currentChatId>>
  /\ UNCHANGED <<messages, inputValue, isStreaming, created, sends, stream, script, typing>>

\* loadChats after `await getAllChats()`
GetAllChatsSettles(i, fetchedChats) ==
  /\ Answered(i, "getAllChats")
  /\ IF ~ApiCall("getAllChats", pending[i].response).throws
     THEN /\ chats' = fetchedChats
          /\ IF pending[i].closure = Null /\ fetchedChats # <<>>
             THEN /\ currentChatId' = fetchedChats[1]
                  /\ pending' = AfterSelect(RemoveAt(pending, i), fetchedChats[1])
                  /\ loading' = FALSE
             ELSE IF fetchedChats = <<>>
             THEN \* handleNewChat(), up to its await
                  /\ pending' = Append(RemoveAt(pending, i), Op("createChat", Null, Null, TRUE))
                  /\ UNCHANGED <<currentChatId, loading>>
             ELSE /\ pending' = RemoveAt(pending, i)
                  /\ loading' = FALSE
                  /\ UNCHANGED currentChatId
          /\ UNCHANGED error
     ELSE /\ error' = <<"Failed to load chats: ">>
                         \o ApiCall("getAllChats", pending[i].response).message
          /\ loading' = FALSE
          /\ pending' = RemoveAt(pending, i)
          /\ UNCHANGED <<chats, currentChatId>>
  /\ UNCHANGED <<messages, inputValue, isStreaming, created, sends, stream, script, typing>>

\* handleNewChat after `await createChat()`, and the finally of a loadChats
\* that awaits it
CreateChatSettles(i) ==
  /\ Answered(i, "createChat")
  /\ IF ~ApiCall("createChat", pending[i].response).throws
     THEN /\ created < Len(NewChatIds)
          /\ LET newChat == NewChatIds[created + 1]
             IN  /\ chats' = <<newChat>> \o chats
                 /\ currentChatId' = newChat
                 /\ pending' = AfterSelect(RemoveAt(pending, i), newChat)
          /\ messages' = <<>>
          /\ created' = created + 1
          /\ UNCHANGED error
     ELSE /\ error' = <<"Failed to create new chat: ">>
                         \o ApiCall("createChat", pending[i].response).message
          /\ pending' = RemoveAt(pending, i)
          /\ UNCHANGED <<chats, currentChatId, messages, created>>
  /\ loading' = IF pending[i].inLoadChats THEN FALSE ELSE loading
  /\ UNCHANGED <<inputValue, isStreaming, sends, stream, script, typing>>

\* loadMessages after `await getMessages(chatId)`
GetMessagesSettles(i, fetchedMessages) ==
  /\ Answered(i, "getMessages")
  /\ IF ~ApiCall("getMessages", pending[i].response).throws
     THEN /\ messages' = fetchedMessages
          /\ UNCHANGED error
     ELSE /\ error' = <<"Failed to load messages: ">>
                         \o ApiCall("getMessages", pending[i].response).message
          /\ UNCHANGED messages
  /\ pending' = RemoveAt(pending, i)
  /\ UNCHANGED <<inputValue, isStreaming, currentChatId, chats, loading, created,
                 sends, stream, script, typing>>

\* handleNewChat, up to `await createChat()`
HandleNewChat ==
  /\ Len(pending) < MaxPending
  /\ pending' = Append(pending, Op("createChat", Null, Null, FALSE))
  /\ UNCHANGED <<messages, inputValue, isStreaming, error, currentChatId, chats,
                 loading, created, sends, stream, script, typing>>

\* handleDeleteChat(chatId), up to `await deleteChat(chatId)`; its
\* continuation closes over the currentChatId and the chats of this render
HandleDeleteChat(chatId) ==
  /\ Len(pending) < MaxPending
  /\ \E j \in 1..Len(chats) : chats[j] = chatId
  /\ pending' = Append(pending, [Op("deleteChat", chatId, currentChatId, FALSE)
                                   EXCEPT !.chats = chats])
  /\ UNCHANGED <<messages, inputValue, isStreaming, error, currentChatId, chats,
                 loading, created, sends, stream, script, typing>>

\* handleDeleteChat after `await deleteChat(chatId)`
DeleteChatSettles(i) ==
  /\ Answered(i, "deleteChat")
  /\ IF ~ApiCall("deleteChat", pending[i].response).throws
     THEN /\ chats' = SelectSeq(chats, LAMBDA chat : chat # pending[i].chatId)
          /\ IF pending[i].chatId = pending[i].closure
             THEN LET remainingChats ==
                        SelectSeq(pending[i].chats, LAMBDA chat : chat # pending[i].chatId)
                  IN  IF remainingChats # <<>>
                      THEN /\ currentChatId' = remainingChats[1]
                           /\ pending' = AfterSelect(RemoveAt(pending, i), remainingChats[1])
                      ELSE \* handleNewChat(), up to its await
                           /\ pending' = Append(RemoveAt(pending, i),
                                                Op("createChat", Null, Null, FALSE))
                           /\ UNCHANGED currentChatId
             ELSE /\ pending' = RemoveAt(pending, i)
                  /\ UNCHANGED currentChatId
          /\ UNCHANGED error
     ELSE /\ error' = <<"Failed to delete chat: ">>
                         \o ApiCall("deleteChat", pending[i].response).message
          /\ pending' = RemoveAt(pending, i)
          /\ UNCHANGED <<chats, currentChatId>>
  /\ UNCHANGED <<messages, inputValue, isStreaming, loading, created, sends, stream,
                 script, typing>>

\* ------------------------------------------------------- the specification
\* The App once it has mounted and its first loadChats and loadMessages have
\* settled: with the chat selected that the load found and the messages
\* stored for it, or, the load having failed, with none.
MountedWith(chatId, loaded) ==
  /\ messages = loaded
  /\ inputValue = NoText
  /\ isStreaming = FALSE
  /\ loading = FALSE
  /\ pending = <<>>
  /\ created = 0
  /\ sends = 0
  /\ stream = [s \in StreamIds |-> IdleStream]
  /\ currentChatId = chatId
  /\ chats = IF chatId = Null THEN <<>> ELSE <<chatId>>
  /\ error = IF chatId = Null
             THEN <<"Failed to load chats: ">> \o ApiCall("getAllChats", "http").message
             ELSE ErrNull

\* one send, answered by a well-formed stream, a failure status or no response
Init ==
  /\ \/ \E loaded \in StoredMessages : MountedWith("c1", loaded)
     \/ MountedWith(Null, <<>>)
  /\ script \in {<<r>> : r \in Replies}
  /\ typing \in {<<v>> : v \in Inputs}

\* one send, answered by a stream of arbitrary lines
InitFrames ==
  /\ MountedWith("c1", <<>>)
  /\ script \in {<<Reply("ok", b)>> : b \in FrameBodies}
  /\ typing = <<<<"H", "i">>>>

\* one send, answered by a stream whose last line has no newline
InitTail ==
  /\ MountedWith("c1", <<>>)
  /\ script \in {<<Reply("ok", b)>> : b \in TailBodies}
  /\ typing = <<<<"H", "i">>>>

\* one send, answered by a stream with sentinel lines
InitDone ==
  /\ MountedWith("c1", <<>>)
  /\ script \in {<<Reply("ok", b)>> : b \in DoneBodies}
  /\ typing = <<<<"H", "i">>>>

\* one send, answered by a stream with lines that are no frames
InitMarker ==
  /\ MountedWith("c1", <<>>)
  /\ script \in {<<Reply("ok", b)>> : b \in MarkerBodies}
  /\ typing = <<<<"H", "i">>>>

\* one send, answered by a stream of thinking and content frames in any order
InitOrder ==
  /\ MountedWith("c1", <<>>)
  /\ script \in {<<Reply("ok", b)>> : b \in OrderBodies}
  /\ typing = <<<<"H", "i">>>>

\* the send path
NextSend ==
  \/ SetInputValue
  \/ HandleSendMessage
  \/ \E s \in StreamIds : FetchSettles(s)
  \/ \E s \in StreamIds : \E n \in 1..Len(stream[s].reply.body) : ReadChunk(s, n)
  \/ \E s \in StreamIds : ReadDone(s)
  \/ \E s \in StreamIds : ReadAborted(s)
  \/ \E s \in StreamIds : ReadFails(s)
  \/ \E s \in StreamIds : Abort(s)

Next ==
  \/ NextSend
  \/ \E i \in 1..Len(pending) : \E status \in Statuses : Responds(i, status)
  \/ \E i \in 1..Len(pending) : \E f \in FetchedChats : GetAllChatsSettles(i, f)
  \/ \E i \in 1..Len(pending) : CreateChatSettles(i)
  \/ \E i \in 1..Len(pending) : \E f \in StoredMessages : GetMessagesSettles(i, f)

\* the send path with a server whose chat list is the chat the send is for
NextFrames ==
  \/ NextSend
  \/ \E i \in 1..Len(pending) : \E status \in Statuses : Responds(i, status)
  \/ \E i \in 1..Len(pending) : GetAllChatsSettles(i, <<"c1">>)

Spec == Init /\ [][Next]_vars

SpecFrames == InitFrames /\ [][NextFrames]_vars

SpecTail == InitTail /\ [][NextFrames]_vars

SpecDone == InitDone /\ [][NextFrames]_vars

SpecMarker == InitMarker /\ [][NextFrames]_vars

SpecOrder == InitOrder /\ [][NextFrames]_vars

\* what the runtime does without the user: a pending fetch settles, a
\* pending reader.read() settles, the response to a REST call arrives and
\* the handler that awaits it resumes
SpecFramesFair ==
  /\ SpecFrames
  /\ WF_vars(\E s \in StreamIds : FetchSettles(s))
  /\ WF_vars(\E s \in StreamIds :
               \/ \E n \in 1..Len(stream[s].reply.body) : ReadChunk(s, n)
               \/ ReadDone(s)
               \/ ReadAborted(s)
               \/ ReadFails(s))
  /\ WF_vars(\E i \in 1..Len(pending) : \E status \in Statuses : Responds(i, status))
  /\ WF_vars(\E i \in 1..Len(pending) : GetAllChatsSettles(i, <<"c1">>))

\* the replies to a sequence of sends: a stream that completes, and no response
SendReplies == {Reply("ok", BodyOf(<<CompleteLine>>)), Reply("network", <<>>)}

\* three sends, the user typing the next message whenever they like
InitSends ==
  /\ MountedWith("c1", <<>>)
  /\ script \in [1..3 -> SendReplies]
  /\ typing = [i \in 1..3 |-> <<"H", "i">>]

\* the App as the only caller: it keeps the handle of a send in
\* streamControllerRef and never calls abort(), in a callback or elsewhere
NextApp ==
  \/ SetInputValue
  \/ HandleSendMessage
  \/ \E s \in StreamIds : FetchSettles(s)
  \/ \E s \in StreamIds : \E n \in 1..Len(stream[s].reply.body) : ReadChunkOf(s, n, FALSE)
  \/ \E s \in StreamIds : ReadDone(s)
  \/ \E s \in StreamIds : ReadFails(s)
  \/ \E i \in 1..Len(pending) : \E status \in Statuses : Responds(i, status)
  \/ \E i \in 1..Len(pending) : GetAllChatsSettles(i, <<"c1">>)

SpecSends == InitSends /\ [][NextApp]_vars

\* what the user types: nothing, a blank, a text with blanks around it
TypedInputs == {NoText, <<" ">>, <<" ", "H", "i", " ">>}

\* two sends, of what the user typed, with or without a chat selected
InitInput ==
  /\ MountedWith("c1", <<>>) \/ MountedWith(Null, <<>>)
  /\ script \in [1..2 -> SendReplies]
  /\ typing \in [1..2 -> TypedInputs]

SpecInput == InitInput /\ [][NextApp]_vars

\* the chat lists the server may answer the first loadChats with
MountChats == {<<>>, <<"c1">>, <<"c4", "c1">>}

\* the App at its first render, the loadChats of the mount effect waiting
\* for getAllChats
InitMount ==
  /\ messages = <<>>
  /\ inputValue = NoText
  /\ isStreaming = FALSE
  /\ chats = <<>>
  /\ currentChatId = Null
  /\ loading = TRUE
  /\ error = ErrNull
  /\ pending = <<Op("getAllChats", Null, Null, FALSE)>>
  /\ created = 0
  /\ sends = 0
  /\ stream = [s \in StreamIds |-> IdleStream]
  /\ script = <<>>
  /\ typing = <<>>

NextMount ==
  \/ HandleNewChat
  \/ \E i \in 1..Len(pending) : \E status \in Statuses : Responds(i, status)
  \/ \E i \in 1..Len(pending) : \E f \in MountChats : GetAllChatsSettles(i, f)
  \/ \E i \in 1..Len(pending) : CreateChatSettles(i)
  \/ \E i \in 1..Len(pending) : \E f \in StoredMessages : GetMessagesSettles(i, f)

SpecMount == InitMount /\ [][NextMount]_vars

\* the chats of the server: the chat of the mount and, before it, the chats
\* created since, the newest first
ServerChats == [j \in 1..created |-> NewChatIds[created + 1 - j]] \o <<"c1">>

\* one send, answered by a stream that completes, the user free to start a
\* new chat at any time; a new chat has no messages on the server
InitSwitch ==
  /\ MountedWith("c1", <<>>)
  /\ script = <<Reply("ok", BodyOf(WellFormedLines(1, CompleteLine)))>>
  /\ typing = <<<<"H", "i">>>>

NextSwitch ==
  \/ SetInputValue
  \/ HandleSendMessage
  \/ \E s \in StreamIds : FetchSettles(s)
  \/ \E s \in StreamIds : \E n \in 1..Len(stream[s].reply.body) : ReadChunkOf(s, n, FALSE)
  \/ \E s \in StreamIds : ReadDone(s)
  \/ \E s \in StreamIds : ReadFails(s)
  \/ HandleNewChat
  \/ \E i \in 1..Len(pending) : \E status \in Statuses : Responds(i, status)
  \/ \E i \in 1..Len(pending) : GetAllChatsSettles(i, ServerChats)
  \/ \E i \in 1..Len(pending) : CreateChatSettles(i)
  \/ \E i \in 1..Len(pending) : GetMessagesSettles(i, <<>>)

SpecSwitch == InitSwitch /\ [][NextSwitch]_vars

\* handleSelectChat(chatId), and the effect on [currentChatId]
HandleSelectChat(chatId) ==
  /\ \E j \in 1..Len(chats) : chats[j] = chatId
  /\ Len(pending) < MaxLoads
  /\ currentChatId' = chatId
  /\ pending' = AfterSelect(pending, chatId)
  /\ UNCHANGED <<messages, inputValue, isStreaming, error, chats, loading, created,
                 sends, stream, script, typing>>

\* the messages the server stores for a chat: one message, whose text is
\* the id of the chat
StoredOf(chatId) == <<Msg("m0", "user", <<chatId>>, "T0", FALSE)>>

\* the App showing the first of three chats, its messages loaded
InitSelect ==
  /\ messages = StoredOf("c1")
  /\ inputValue = NoText
  /\ isStreaming = FALSE
  /\ chats = <<"c1", "c2", "c3">>
  /\ currentChatId = "c1"
  /\ loading = FALSE
  /\ error = ErrNull
  /\ pending = <<>>
  /\ created = 0
  /\ sends = 0
  /\ stream = [s \in StreamIds |-> IdleStream]
  /\ script = <<>>
  /\ typing = <<>>

NextSelect ==
  \/ \E chatId \in {"c1", "c2", "c3"} : HandleSelectChat(chatId)
  \/ \E i \in 1..Len(pending) : \E status \in Statuses : Responds(i, status)
  \/ \E i \in 1..Len(pending) : GetMessagesSettles(i, StoredOf(pending[i].chatId))

SpecSelect == InitSelect /\ [][NextSelect]_vars

\* the App after loadChats has selected the chat c1, the message load of the
\* effect on [currentChatId] in flight; one send, answered by a stream that
\* completes
InitLoad ==
  /\ messages = <<>>
  /\ inputValue = NoText
  /\ isStreaming = FALSE
  /\ chats = <<"c1">>
  /\ currentChatId = "c1"
  /\ loading = FALSE
  /\ error = ErrNull
  /\ pending = <<Op("getMessages", "c1", Null, FALSE)>>
  /\ created = 0
  /\ sends = 0
  /\ stream = [s \in StreamIds |-> IdleStream]
  /\ script = <<Reply("ok", BodyOf(WellFormedLines(1, CompleteLine)))>>
  /\ typing = <<<<"H", "i">>>>

\* the App as the only caller, the load answered with the messages the
\* server stored when it served the request, before the send
NextLoad ==
  \/ NextApp
  \/ \E i \in 1..Len(pending) : \E f \in StoredMessages : GetMessagesSettles(i, f)

SpecLoad == InitLoad /\ [][NextLoad]_vars

\* one send, answered by a well-formed stream, to a caller whose callbacks
\* may throw
InitThrow ==
  /\ MountedWith("c1", <<>>)
  /\ script \in {<<Reply("ok", b)>> : b \in Bodies}
  /\ typing = <<<<"H", "i">>>>

NextThrow ==
  \/ SetInputValue
  \/ HandleSendMessage
  \/ \E s \in StreamIds : FetchSettles(s)
  \/ \E s \in StreamIds : \E n \in 1..Len(stream[s].reply.body) : ReadChunkThrows(s, n)
  \/ \E s \in StreamIds : ReadDone(s)
  \/ \E s \in StreamIds : ReadFails(s)
  \/ \E i \in 1..Len(pending) : \E status \in Statuses : Responds(i, status)
  \/ \E i \in 1..Len(pending) : GetAllChatsSettles(i, <<"c1">>)

SpecThrow == InitThrow /\ [][NextThrow]_vars

\* ------------------------------------------ the App with simulated replies
\* (claude_ai_chat_interface_frontend/src/App.js: no server, the reply is
\* one of three texts, shown by a timer two seconds after the send)
SimResponses == {<<"r1">>, <<"r2">>, <<"r3">>}

\* Date.now() when send k is accepted, and when its timer fires
SimSendTime(k) == 10 * k
SimFireTime(k) == 10 * k + 5

\* a setTimeout callback waiting to run, for send k
Timer(k) == [kind |-> "setTimeout", send |-> k]

\* mutant: the timer's updater keeps the messages marked isThinking
SimTimerKeepsThinking(i, response) ==
  /\ i \in 1..Len(pending)
  /\ pending[i].kind = "setTimeout"
  /\ messages' = Append(messages,
                        Msg(SimFireTime(pending[i].send) + 2, "assistant", response, Now, FALSE))
  /\ isStreaming' = FALSE
  /\ pending' = RemoveAt(pending, i)
  /\ UNCHANGED <<inputValue, error, currentChatId, chats, loading, created, sends,
                 stream, script, typing>>

\* the textarea's onChange
SimSetInputValue ==
  /\ typing # <<>>
  /\ inputValue' = Head(typing)
  /\ typing' = Tail(typing)
  /\ UNCHANGED <<messages, isStreaming, error, currentChatId, chats, loading,
                 pending, created, sends, stream, script>>

\* handleSendMessage, up to setTimeout
SimHandleSendMessage ==
  IF Trim(inputValue) = NoText \/ isStreaming
  THEN UNCHANGED vars
  ELSE /\ messages' = messages
                        \o <<Msg(SimSendTime(sends + 1), "user", inputValue, Now, FALSE),
                             Msg(SimSendTime(sends + 1) + 1, "assistant", NoText, Now, TRUE)>>
       /\ inputValue' = NoText
       /\ isStreaming' = TRUE
       /\ sends' = sends + 1
       /\ pending' = Append(pending, Timer(sends + 1))
       /\ UNCHANGED <<error, currentChatId, chats, loading, created, stream, script, typing>>

\* the callback of setTimeout, with the text Math.random() picks
SimTimerFires(i, response) ==
  /\ i \in 1..Len(pending)
  /\ pending[i].kind = "setTimeout"
  /\ messages' = Append(SelectSeq(messages, LAMBDA msg : ~msg.isThinking),
                        Msg(SimFireTime(pending[i].send) + 2, "assistant", response, Now, FALSE))
  /\ isStreaming' = FALSE
  /\ pending' = RemoveAt(pending, i)
  /\ UNCHANGED <<inputValue, error, currentChatId, chats, loading, created, sends,
                 stream, script, typing>>

\* handleNewChat
SimHandleNewChat ==
  /\ created < Len(NewChatIds)
  /\ chats' = <<NewChatIds[created + 1]>> \o chats
  /\ currentChatId' = NewChatIds[created + 1]
  /\ messages' = <<>>
  /\ created' = created + 1
  /\ UNCHANGED <<inputValue, isStreaming, error, loading, pending, sends, stream,
                 script, typing>>

\* a click on a chat of the sidebar; the messages of a chat in `chats` are
\* never written, they are the empty list
SimSelectChat(chatId) ==
  /\ \E j \in 1..Len(chats) : chats[j] = chatId
  /\ currentChatId' = chatId
  /\ messages' = <<>>
  /\ UNCHANGED <<inputValue, isStreaming, error, chats, loading, pending, created,
                 sends, stream, script, typing>>

\* the simulated App at its first render, the user about to type
InitSim ==
  /\ messages = <<>>
  /\ inputValue = NoText
  /\ isStreaming = FALSE
  /\ chats = <<"c1">>
  /\ currentChatId = "c1"
  /\ loading = FALSE
  /\ error = ErrNull
  /\ pending = <<>>
  /\ created = 0
  /\ sends = 0
  /\ stream = [s \in StreamIds |-> IdleStream]
  /\ script = <<>>
  /\ typing \in [1..2 -> Inputs]

NextSim ==
  \/ SimSetInputValue
  \/ SimHandleSendMessage
  \/ \E i \in 1..Len(pending) : \E response \in SimResponses : SimTimerFires(i, response)
  \/ SimHandleNewChat
  \/ \E chatId \in {"c1"} \cup {NewChatIds[j] : j \in 1..Len(NewChatIds)} :
       SimSelectChat(chatId)

SpecSim == InitSim /\ [][NextSim]_vars

\* the event loop runs the callback of a timer whose delay has passed
SpecSimFair ==
  /\ SpecSim
  /\ WF_vars(\E i \in 1..Len(pending) : \E response \in SimResponses :
               SimTimerFires(i, response))

\* two sends whose streams are read at the same time: the first reply carries
\* an error frame, which lets the App accept the second send, and goes on
PairFirst == Encode(Joined(<<ErrorLine, ContentLine(2)>>))
PairSecond == Encode(Joined(<<ContentLine(2), ErrorLine>>))

InitPair ==
  /\ MountedWith("c1", <<>>)
  /\ script = <<Reply("ok", PairFirst), Reply("ok", PairSecond)>>
  /\ typing = <<<<"H", "i">>, <<"H", "i">>>>

SpecPair == InitPair /\ [][NextSend]_vars

\* no send: the user creates and deletes chats
InitRest ==
  /\ \E loaded \in StoredMessages : MountedWith("c1", loaded)
  /\ script = <<>>
  /\ typing = <<>>

NextRest ==
  \/ HandleNewChat
  \/ \E chatId \in {"c1"} \cup {NewChatIds[j] : j \in 1..Len(NewChatIds)} :
       HandleDeleteChat(chatId)
  \/ \E i \in 1..Len(pending) : \E status \in Statuses : Responds(i, status)
  \/ \E i \in 1..Len(pending) : CreateChatSettles(i)
  \/ \E i \in 1..Len(pending) : DeleteChatSettles(i)
  \/ \E i \in 1..Len(pending) : \E f \in StoredMessages : GetMessagesSettles(i, f)

SpecRest == InitRest /\ [][NextRest]_vars

\* ================================================================= claims
\* the callbacks stream s has invoked, in order
Callbacks(s) == SelectSeq(stream[s].calls, LAMBDA c : c.cb # "abort")

\* neither abort() nor a transport failure has touched stream s
Undisturbed(s) == stream[s].aborts = 0 /\ stream[s].ended \in {"no", "eof"}

IsPrefix(a, b) == Len(a) <= Len(b) /\ SubSeq(b, 1, Len(a)) = a

\* what the frames of the replies carry
UserCall == Call("onUserMessage", Payload("m1", <<"q">>, "T1", NoText))
ThinkingCall == Call("onThinking", NoPayload)
ContentCall(i) == Call("onContent", Payload(NoStr, Fragment(i), NoStr, NoText))
CompleteCall == Call("onComplete", Payload("m2", <<"z">>, "T2", NoText))
ErrorCall == Call("onError", Payload(NoStr, NoText, NoStr, <<"b">>))

WellFormedCalls(k, terminal) ==
  <<UserCall, ThinkingCall>> \o [i \in 1..k |-> ContentCall(i)]
    \o <<IF terminal = CompleteLine THEN CompleteCall ELSE ErrorCall>>

\* C1: for a well-formed stream (user_message, thinking, k content frames,
\* then complete or error) that neither abort() nor a transport failure
\* disturbs, the callbacks invoked so far are at every moment the first
\* callbacks of onUserMessage, onThinking, onContent (once per content frame,
\* in frame order), terminal callback, each run after the one before it has
\* returned; when the body has ended they are exactly that sequence, with
\* exactly one terminal callback at its end.
C1_CallbackOrder ==
  \A s \in StreamIds : \A k \in 0..MaxContent : \A t \in {CompleteLine, ErrorLine} :
    ( /\ stream[s].pc \in {"read", "done"}
      /\ Undisturbed(s)
      /\ stream[s].reply = Reply("ok", BodyOf(WellFormedLines(k, t))) )
    => /\ IsPrefix(stream[s].calls, WellFormedCalls(k, t))
       /\ stream[s].ended = "eof" => stream[s].calls = WellFormedCalls(k, t)

\* a well-formed stream with content frames has ended and all its callbacks ran
C1_Witness ==
  \E s \in StreamIds :
    /\ stream[s].ended = "eof"
    /\ stream[s].aborts = 0
    /\ Len(stream[s].calls) >= 4
    /\ Last(stream[s].calls) = CompleteCall

\* C2: once abort() has been called on the handle before the terminal
\* callback was invoked, no callback of that stream is invoked any more:
\* in the log of the handle, an abort() that no terminal callback precedes
\* is followed by nothing but further abort() calls.
C2_NoCallbackAfterAbort ==
  \A s \in StreamIds : \A i \in 1..Len(stream[s].calls) :
    ( /\ stream[s].calls[i].cb = "abort"
      /\ \A h \in 1..(i - 1) : stream[s].calls[h].cb \notin {"onComplete", "onError"} )
    => \A j \in (i + 1)..Len(stream[s].calls) : stream[s].calls[j].cb = "abort"

\* the last callback stream s has invoked is cb
LastCallbackIs(s, cb) == Callbacks(s) # <<>> /\ Last(Callbacks(s)).cb = cb

Assistants == SelectSeq(messages, LAMBDA msg : msg.role = "assistant")

NoPlaceholder(s) ==
  \A i \in 1..Len(messages) : messages[i].id # TempIds[s] /\ ~messages[i].isThinking

\* C3: when the onComplete callback of a well-formed stream, applied with the
\* frames before it to an empty message list, has run, the list holds exactly
\* one assistant message, with the id, content and timestamp of the complete
\* event, no message with the temporary id and no message marked isThinking.
C3_CompleteFinalList ==
  \A s \in StreamIds :
    (LastCallbackIs(s, "onComplete") /\ created = 0)
    => /\ Assistants = <<Msg(Last(Callbacks(s)).arg.id, "assistant",
                             Last(Callbacks(s)).arg.content,
                             Last(Callbacks(s)).arg.timestamp, FALSE)>>
       /\ NoPlaceholder(s)

\* onComplete has run after content frames had built a temporary message
C3_Witness ==
  \E s \in StreamIds :
    /\ LastCallbackIs(s, "onComplete")
    /\ created = 0
    /\ \E i \in 1..Len(stream[s].calls) : stream[s].calls[i].cb = "onContent"

\* C4: when the onError callback has run, after any number of content frames,
\* the message list holds no message with the temporary id and no message
\* marked isThinking.
C4_ErrorNoPlaceholder ==
  \A s \in StreamIds : LastCallbackIs(s, "onError") => NoPlaceholder(s)

\* the error frame of a stream has been dispatched after content frames
C4_Witness ==
  \E s \in StreamIds :
    /\ LastCallbackIs(s, "onError")
    /\ Last(Callbacks(s)) = ErrorCall
    /\ \E i \in 1..Len(stream[s].calls) : stream[s].calls[i].cb = "onContent"

\* the callbacks of a body delivered as one chunk
WholeCalls(bytes) == LineCalls(Front(Split(DecodeBytes(bytes, TRUE).text)))

\* C5: however the bytes received so far were cut into chunks, the callbacks
\* invoked, with their arguments, are those of the same bytes delivered as a
\* single chunk.
C5_ChunkInvariance ==
  \A s \in StreamIds :
    (stream[s].pc \in {"read", "done"} /\ Undisturbed(s))
    => stream[s].calls =
         WholeCalls(SubSeq(stream[s].reply.body, 1, stream[s].pos))

\* a chunk has ended inside a character of a payload, after a frame of an
\* earlier line was dispatched
C5_Witness ==
  \E s \in StreamIds :
    /\ stream[s].pc = "read"
    /\ Undisturbed(s)
    /\ stream[s].pendingBytes = <<Lead>>
    /\ stream[s].calls # <<>>

\* what the lines of the vocabulary are to make the loop call
ExpectedCall(line) ==
  CASE line = UserLine -> <<UserCall>>
    [] line = ThinkingLine -> <<ThinkingCall>>
    [] line = ContentLine(1) -> <<ContentCall(1)>>
    [] line = ContentLine(2) -> <<ContentCall(2)>>
    [] line = CompleteLine -> <<CompleteCall>>
    [] line = ErrorLine -> <<ErrorCall>>
    [] OTHER -> <<>>

RECURSIVE ExpectedCalls(_)
ExpectedCalls(lines) ==
  IF lines = <<>> THEN <<>> ELSE ExpectedCall(Head(lines)) \o ExpectedCalls(Tail(lines))

\* stream s has read its body to the end, undisturbed
Ended(s) == stream[s].ended = "eof" /\ stream[s].aborts = 0

\* stream s has read to its end, undisturbed, the body made of `lines`
EndedWith(s, lines) == Ended(s) /\ stream[s].reply.body = Encode(Joined(lines))

Unparsable == {MalformedLine, NullLine}

\* the lines of the vocabulary that the server joined into the body: the
\* bytes between two newline bytes are the encoding of one line
BodyLines(body) ==
  LET encoded == Front(Split(body))
  IN  [i \in 1..Len(encoded) |-> CHOOSE line \in LineVocabulary : Encode(line) = encoded[i]]

\* C6: a data line whose payload does not parse invokes no callback and does
\* not stop the stream: at the end of a body with such lines the callbacks
\* invoked are those of the body without them, in order.
C6_MalformedSkipped ==
  \A s \in StreamIds :
    Ended(s) =>
      \A lines \in {BodyLines(stream[s].reply.body)} :
        (EndedWith(s, lines) /\ \E i \in 1..Len(lines) : lines[i] \in Unparsable)
        => stream[s].calls =
             ExpectedCalls(SelectSeq(lines, LAMBDA line : line \notin Unparsable))

\* a body whose first line does not parse has ended, its second line dispatched
C6_Witness ==
  \E s \in StreamIds :
    /\ EndedWith(s, <<MalformedLine, ContentLine(2)>>)
    /\ stream[s].calls = <<ContentCall(2)>>

\* C7: a frame of an unknown event kind invokes no callback and does not
\* interrupt parsing: at the end of a body with such frames the callbacks
\* invoked are those of the body without them.
C7_UnknownKindIgnored ==
  \A s \in StreamIds :
    Ended(s) =>
      \A lines \in {BodyLines(stream[s].reply.body)} :
        (EndedWith(s, lines) /\ \E i \in 1..Len(lines) : lines[i] = PingLine)
        => stream[s].calls =
             ExpectedCalls(SelectSeq(lines, LAMBDA line : line # PingLine))

\* a body with a ping frame before a complete frame has ended
C7_Witness ==
  \E s \in StreamIds :
    /\ EndedWith(s, <<PingLine, CompleteLine>>)
    /\ stream[s].calls = <<CompleteCall>>

TransportError == Payload(NoStr, NoText, NoStr, NetworkMessage)

\* C8: when the request has failed before any byte of a body was read, and
\* not with an http status: if it failed for another reason than abort(),
\* onError was invoked once, with the failure message, and nothing else; if
\* abort() made it fail, no callback was invoked and the error state is null.
C8_FailureBeforeFrames ==
  \A s \in StreamIds :
    (stream[s].pc = "done" /\ stream[s].pos = 0 /\ stream[s].reply.status # "http")
    => /\ stream[s].ended = "error" =>
            Callbacks(s) = <<Call("onError", TransportError)>>
       /\ stream[s].ended = "abort" => Callbacks(s) = <<>> /\ error = ErrNull

\* fetch has rejected with a transport failure and the App shows the error
C8_Witness ==
  \E s \in StreamIds :
    /\ stream[s].pc = "done"
    /\ stream[s].reply.status = "network"
    /\ stream[s].ended = "error"
    /\ error = SendErrorText(TransportError)

StatusError == Payload(NoStr, NoText, NoStr, <<"Failed to send message: ">> \o StatusText)

\* C9: when the response has a non-success status nothing of its body is read
\* or parsed, onError is invoked once, with a message made from the status
\* text, and no other callback is.
C9_HttpStatus ==
  \A s \in StreamIds :
    (stream[s].pc # "idle" /\ stream[s].reply.status = "http")
    => /\ stream[s].pos = 0
       /\ stream[s].buffer = NoText
       /\ stream[s].pc \in {"fetch", "done"}
       /\ Callbacks(s) = IF stream[s].ended = "error"
                         THEN <<Call("onError", StatusError)>>
                         ELSE <<>>

\* a response with a non-success status has arrived
C9_Witness ==
  \E s \in StreamIds :
    /\ stream[s].reply.status = "http"
    /\ stream[s].ended = "error"
    /\ error = SendErrorText(StatusError)

\* C10: abort() on a handle that is aborted already changes nothing but the
\* record that it was called: no callback is invoked, the App's state and
\* the state of the stream stay as the first call left them.
C10_AbortIdempotent ==
  [][\A s \in StreamIds :
       (stream[s].aborted /\ stream'[s].aborts > stream[s].aborts)
       => /\ UNCHANGED appVars
          /\ stream' = [stream EXCEPT ![s].aborts = @ + 1,
                                      ![s].calls = Append(@, AbortCall)]]_vars

\* abort() was called twice while the stream was being read
C10_Witness ==
  \E s \in StreamIds :
    /\ stream[s].pc = "read"
    /\ stream[s].pos > 0
    /\ stream[s].aborts = 2

\* the terminal callback of stream s was delivered and its body has closed
EndedNaturally(s) ==
  /\ stream[s].ended = "eof"
  /\ \E i \in 1..Len(stream[s].calls) : stream[s].calls[i].cb \in {"onComplete", "onError"}

\* C11: once the terminal callback of a stream was delivered and its body has
\* closed, no step invokes a callback of that stream any more, and abort() on
\* its handle leaves the message list, isStreaming and the error state as
\* they are.
C11_InertAfterEnd ==
  [][\A s \in StreamIds :
       EndedNaturally(s)
       => /\ SelectSeq(stream'[s].calls, LAMBDA c : c.cb # "abort") = Callbacks(s)
          /\ stream'[s].aborts > stream[s].aborts
             => UNCHANGED <<messages, isStreaming, error>>]_vars

\* abort() was called on the handle of a stream that had completed
C11_Witness ==
  \E s \in StreamIds :
    /\ EndedNaturally(s)
    /\ Last(stream[s].calls) = AbortCall
    /\ Callbacks(s) # <<>>
    /\ Last(Callbacks(s)) = CompleteCall

\* C12: when a stream user_message(m1), thinking, content fragments,
\* complete(m2) has been read to its end for a send accepted on the message
\* list L, and nothing else has written the list, the list is L followed by
\* the user message m1 and the assistant message m2 with the content of the
\* complete event, in that order.
C12_FinalList ==
  \A s \in StreamIds : \A k \in 0..MaxContent :
    ( /\ Ended(s)
      /\ stream[s].reply = Reply("ok", BodyOf(WellFormedLines(k, CompleteLine)))
      /\ created = 0 )
    => messages = stream[s].base
                    \o <<Msg("m1", "user", <<"q">>, "T1", FALSE),
                         Msg("m2", "assistant", <<"z">>, "T2", FALSE)>>

\* a stream with content fragments has completed on a list that held a message
C12_Witness ==
  \E s \in StreamIds :
    /\ Ended(s)
    /\ stream[s].reply = Reply("ok", BodyOf(WellFormedLines(2, CompleteLine)))
    /\ created = 0
    /\ stream[s].base # <<>>
    /\ Len(messages) = 3

\* abort() was called on the handle of stream s after its onThinking callback
\* and before any onContent callback
AbortedAfterThinking(s) ==
  \E i \in 1..Len(stream[s].calls) :
    /\ stream[s].calls[i].cb = "abort"
    /\ \E h \in 1..(i - 1) : stream[s].calls[h].cb = "onThinking"
    /\ \A h \in 1..(i - 1) : stream[s].calls[h].cb \notin {"onContent", "onComplete", "onError"}

\* the thinking placeholder of stream s is in the message list
HasPlaceholder(s) ==
  \E j \in 1..Len(messages) : messages[j].id = TempIds[s] /\ messages[j].isThinking

\* C13: when abort() was called after the thinking callback and before any
\* content frame was dispatched, neither onComplete nor onError has been
\* invoked for that send, and, nothing else having written the list, the
\* message list holds the thinking placeholder.
C13_AbortAfterThinking ==
  \A s \in StreamIds :
    AbortedAfterThinking(s)
    => /\ \A j \in 1..Len(stream[s].calls) :
            stream[s].calls[j].cb \notin {"onComplete", "onError"}
       /\ created = 0 => HasPlaceholder(s)

\* stream s was started and has not delivered a terminal callback
InFlight(s) ==
  /\ stream[s].pc # "idle"
  /\ \A i \in 1..Len(stream[s].calls) : stream[s].calls[i].cb \notin {"onComplete", "onError"}

\* C14 (first half): while isStreaming is true no step starts a send.
C14_NoSendWhileStreaming == [][isStreaming => sends' = sends]_vars

\* C14: in every reachable state at most one stream started by the App has
\* not yet delivered its terminal callback.
C14_OneInFlight == Cardinality({s \in StreamIds : InFlight(s)}) <= 1

\* how many of the calls `ops` are the call op
Count(op, ops) == Cardinality({j \in 1..Len(ops) : ops[j] = op})

\* what each handler puts before the message of the error it catches
HandlerPrefix(kind) ==
  CASE kind = "createChat" -> <<"Failed to create new chat: ">>
    [] kind = "deleteChat" -> <<"Failed to delete chat: ">>
    [] OTHER -> <<"Failed to load messages: ">>

\* C15: each of the six REST functions throws its error when the status of
\* the response is not success; and the step in which handleNewChat,
\* handleDeleteChat or loadMessages resumes on such a response of createChat,
\* deleteChat or getMessages leaves chats, currentChatId and messages (and the
\* input and isStreaming) as they are and sets the error state to the
\* handler's text followed by the function's message.
C15_RestFailure ==
  [][/\ \A fn \in ApiCalls :
          ApiCall(fn, "http") = [throws |-> TRUE, message |-> ApiFailure(fn) \o StatusText]
     /\ \A i \in 1..Len(pending) :
          ( /\ pending[i].kind \in {"createChat", "deleteChat", "getMessages"}
            /\ pending[i].response = "http"
            /\ Count(pending[i], pending') < Count(pending[i], pending) )
          => /\ UNCHANGED <<chats, currentChatId, messages, inputValue, isStreaming>>
             /\ error' = HandlerPrefix(pending[i].kind)
                           \o ApiFailure(pending[i].kind) \o StatusText]_vars

\* deleteChat was answered with a failure status while another chat existed
C15_Witness ==
  /\ error = <<"Failed to delete chat: ", "Failed to delete chat: ">> \o StatusText
  /\ Len(chats) = 2
  /\ pending = <<>>

\* the messages that do not carry the temporary id of stream s
Others(msgs, s) == SelectSeq(msgs, LAMBDA msg : msg.id # TempIds[s])

\* the callbacks stream s invokes in this step
NewCalls(s) == SubSeq(stream'[s].calls, Len(stream[s].calls) + 1, Len(stream'[s].calls))

\* C16 (second half): a step in which a stream invokes only user_message,
\* thinking and content callbacks leaves isStreaming as it is and removes or
\* modifies no message but the one with the stream's temporary id.
C16_NonTerminalAdditive ==
  [][\A s \in StreamIds :
       ( /\ Len(stream'[s].calls) > Len(stream[s].calls)
         /\ \A j \in 1..Len(NewCalls(s)) :
              NewCalls(s)[j].cb \in {"onUserMessage", "onThinking", "onContent", "abort"} )
       => /\ isStreaming' = isStreaming
          /\ IsPrefix(Others(messages, s), Others(messages', s))]_vars

\* C16: isStreaming is true in every state from the acceptance of a send
\* until its onComplete or onError callback runs.
C16_StreamingUntilTerminal ==
  \A s \in StreamIds : InFlight(s) => isStreaming

\* C17: a call of sendMessageStream has issued exactly one request, a POST to
\* the messages of its chat with the content as body, whatever has happened
\* to it since (failure status, transport failure, abort, end of body); a
\* stream not started has issued none.
C17_OneRequest ==
  \A s \in StreamIds :
    stream[s].requests =
      IF stream[s].pc = "idle"
      THEN <<>>
      ELSE <<[method |-> "POST", chat |-> stream[s].chatId, resource |-> "messages",
              body |-> stream[s].content]>>

\* the transport failed while the body of a send was being read
C17_Witness ==
  \E s \in StreamIds :
    /\ stream[s].ended = "error"
    /\ stream[s].pos > 0
    /\ stream[s].content = <<"H", "i">>
    /\ Len(stream[s].requests) = 1

\* the messages that carry the temporary id of stream s
Own(msgs, s) == SelectSeq(msgs, LAMBDA msg : msg.id = TempIds[s])

\* C18: with two streams being read at the same time, their chunks and
\* abort() calls interleaved in any order: a step of one stream changes
\* nothing of the other (its buffer, its decoder, its log of callbacks) and
\* no message with the other's temporary id; the callbacks each undisturbed
\* stream has invoked are those of its own bytes delivered alone, whatever
\* the other stream did and whether the other was aborted.
C18_StreamsIsolated ==
  [][\A s \in StreamIds :
       /\ (stream'[s].pc \in {"read", "done"} /\ stream'[s].aborts = 0
             /\ stream'[s].ended \in {"no", "eof"})
          => stream'[s].calls =
               WholeCalls(SubSeq(stream'[s].reply.body, 1, stream'[s].pos))
       /\ \A t \in StreamIds \ {s} :
            stream'[s] # stream[s]
            => /\ stream'[t] = stream[t]
               /\ Own(messages', t) = Own(messages, t)]_vars

\* the first stream was aborted in the middle of a line and the second has
\* been read to its end, all its callbacks invoked
C18_Witness ==
  /\ stream[1].ended = "abort"
  /\ stream[1].buffer # NoText
  /\ Ended(2)
  /\ stream[2].calls = <<ContentCall(2), ErrorCall>>

\* both streams are in the middle of a line, the first one aborted
C18_Interleaved ==
  /\ stream[1].pc = "read" /\ stream[1].buffer # NoText /\ stream[1].aborted
  /\ stream[2].pc = "read" /\ stream[2].buffer # NoText /\ stream[2].calls # <<>>

\* C19: when the body has ended and its last line had no newline after it,
\* be it a complete frame, that line was dispatched to no callback and no
\* onError was invoked for it: the callbacks invoked are those of the lines
\* before it.
C19_TailDiscarded ==
  \A s \in StreamIds :
    Ended(s) =>
      \A lines \in TailLineSeqs :
        stream[s].reply.body = Encode(Unterminated(lines))
        => stream[s].calls = ExpectedCalls(Front(lines))

\* a body has ended whose last line was a complete frame without its newline
C19_Witness ==
  \E s \in StreamIds :
    /\ Ended(s)
    /\ stream[s].reply.body = Encode(Unterminated(<<ContentLine(2), CompleteLine>>))
    /\ stream[s].calls = <<ContentCall(2)>>
    /\ stream[s].buffer = CompleteLine
    /\ isStreaming

Sentinels == {DoneLine, DonePadded}

\* the payload of a frame line
PayloadText(line) == Trim(Slice(line, Len(Marker)))

\* C20: a data line whose payload, the marker stripped and the white space
\* trimmed, is [DONE] invokes no callback and is not given to JSON.parse: at
\* the end of a body with such lines the callbacks invoked and the texts
\* parsed are those of the other lines, in order.
C20_DoneSentinel ==
  \A s \in StreamIds :
    Ended(s) =>
      \A lines \in DoneLineSeqs :
        ( /\ stream[s].reply.body = Encode(Joined(lines))
          /\ \E i \in 1..Len(lines) : lines[i] \in Sentinels )
        => LET others == SelectSeq(lines, LAMBDA line : line \notin Sentinels)
           IN  /\ stream[s].calls = ExpectedCalls(others)
               /\ stream[s].parsed = [j \in 1..Len(others) |-> PayloadText(others[j])]

\* a body with a padded sentinel line before a complete frame has ended
C20_Witness ==
  \E s \in StreamIds :
    /\ Ended(s)
    /\ stream[s].reply.body = Encode(Joined(<<DonePadded, CompleteLine>>))
    /\ stream[s].calls = <<CompleteCall>>
    /\ stream[s].parsed = <<<<"{", "K", "z", "}">>>>

\* C21: after each chunk the buffer of a stream is the text received after
\* the last newline so far, it holds no newline, and the lines given to the
\* frame parser so far are those whose newline has been received: a line is
\* examined in the step that receives its newline, not before and not again.
C21_BufferedLines ==
  \A s \in StreamIds :
    \A pieces \in {Split(DecodeBytes(SubSeq(stream[s].reply.body, 1, stream[s].pos),
                                      TRUE).text)} :
      /\ stream[s].buffer = Last(pieces)
      /\ \A i \in 1..Len(stream[s].buffer) : stream[s].buffer[i] # NL
      /\ stream[s].parsed = LineParses(Front(pieces))

\* a chunk has ended inside a frame line after an earlier line was parsed
C21_Witness ==
  \E s \in StreamIds :
    /\ stream[s].pc = "read"
    /\ stream[s].buffer = Marker \o <<"{", "K">>
    /\ Len(stream[s].parsed) = 1

\* the lines of the marker vocabulary that the server joined into the body
MarkerBodyLines(body) ==
  LET encoded == Front(Split(body))
  IN  [i \in 1..Len(encoded) |-> CHOOSE line \in MarkerVocabulary : Encode(line) = encoded[i]]

\* the lines of the marker vocabulary that start with the marker, and the
\* text after their marker without the white space around it
FrameLines == {PaddedLine, CompleteLine}

FrameText(line) ==
  IF line = PaddedLine THEN <<"{", "E", "b", "}">> ELSE <<"{", "K", "z", "}">>

FrameCall(line) == IF line = PaddedLine THEN ErrorCall ELSE CompleteCall

\* C22: a line is a frame if and only if it starts with the marker "data: ":
\* at the end of a body of frame lines and of blank, comment, indented and
\* "data:" lines, the callbacks invoked are those of the frame lines, in
\* order, and JSON.parse was given, for each frame line, the text after the
\* marker without leading and trailing white space, and nothing else.
C22_MarkerLines ==
  \A s \in StreamIds :
    Ended(s) =>
      \A lines \in {MarkerBodyLines(stream[s].reply.body)} :
        \A frames \in {SelectSeq(lines, LAMBDA line : line \in FrameLines)} :
          /\ stream[s].calls = [j \in 1..Len(frames) |-> FrameCall(frames[j])]
          /\ stream[s].parsed = [j \in 1..Len(frames) |-> FrameText(frames[j])]

\* a body with an indented frame line before a padded frame line has ended
C22_Witness ==
  \E s \in StreamIds :
    /\ Ended(s)
    /\ stream[s].reply.body = Encode(Joined(<<IndentedLine, PaddedLine>>))
    /\ stream[s].calls = <<ErrorCall>>
    /\ stream[s].parsed = <<<<"{", "E", "b", "}">>>>

\* a body with a line whose marker lacks the blank has ended
C22_NoSpace ==
  \E s \in StreamIds :
    /\ Ended(s)
    /\ stream[s].reply.body = Encode(Joined(<<NoSpaceLine>>))
    /\ stream[s].calls = <<>>

\* the fragments of the first k content frames, one after the other
Fragments(k) == Flatten([i \in 1..k |-> Fragment(i)])

\* C23: when the callbacks of a send accepted on the message list L are
\* user_message, thinking and k >= 1 content callbacks, and nothing else has
\* written the list, the list is L, the user message and, in the place the
\* thinking placeholder had, one message with the temporary id, not marked
\* isThinking, whose content is the fragments in their order of arrival.
C23_ContentAssembled ==
  \A s \in StreamIds : \A k \in 1..MaxContent :
    ( /\ Callbacks(s) = <<UserCall, ThinkingCall>> \o [i \in 1..k |-> ContentCall(i)]
      /\ created = 0 )
    => messages = stream[s].base
                    \o <<Msg("m1", "user", <<"q">>, "T1", FALSE),
                         Msg(TempIds[s], "assistant", Fragments(k), Now, FALSE)>>

\* two content callbacks have extended the message that took the place of
\* the placeholder, on a list that held a message
C23_Witness ==
  \E s \in StreamIds :
    /\ Callbacks(s) = <<UserCall, ThinkingCall, ContentCall(1), ContentCall(2)>>
    /\ created = 0
    /\ stream[s].base # <<>>
    /\ Last(messages).content = <<"a", EAcute, "b">>

\* C24: the step that accepts a send leaves the message list as it is; as
\* long as no callback of the send has run the list is the list the send was
\* accepted on, and when user_message is the one callback that has run the
\* list is that list followed by one message with role user and the id,
\* content and timestamp of the event.
C24_NoOptimisticCopy ==
  [][/\ sends' = sends + 1 => messages' = messages
     /\ \A s \in StreamIds :
          (stream'[s].pc # "idle" /\ created' = 0)
          => /\ Callbacks(s)' = <<>> => messages' = stream'[s].base
             /\ Callbacks(s)' = <<UserCall>>
                => messages' = Append(stream'[s].base,
                                      Msg("m1", "user", <<"q">>, "T1", FALSE))]_vars

\* the user_message callback alone has run, on a list that held a message
C24_Witness ==
  \E s \in StreamIds :
    /\ Callbacks(s) = <<UserCall>>
    /\ created = 0
    /\ stream[s].base # <<>>
    /\ Last(messages) = Msg("m1", "user", <<"q">>, "T1", FALSE)
    /\ Len(messages) = Len(stream[s].base) + 1

\* the callbacks, abort() left out, that stream s invokes in this step
NewCallbacks(s) == SelectSeq(NewCalls(s), LAMBDA c : c.cb # "abort")

\* C25: a step in which onError is the last callback a stream invokes ends
\* with an error state that is not null, isStreaming false and no message
\* with the stream's temporary id; when onError is the one callback of the
\* step, the error state is made of the message of the failure and the list
\* is the list before the step without the messages with the temporary id,
\* the others unchanged and in their order.
C25_ErrorRollsBack ==
  [][\A s \in StreamIds :
       (NewCallbacks(s) # <<>> /\ Last(NewCallbacks(s)).cb = "onError")
       => /\ error' # ErrNull
          /\ ~isStreaming'
          /\ \A i \in 1..Len(messages') : messages'[i].id # TempIds[s]
          /\ Len(NewCallbacks(s)) = 1
             => /\ error' = <<"Failed to send message: ">> \o NewCallbacks(s)[1].arg.message
                /\ messages' = Others(messages, s)]_vars

\* the error frame of a stream was dispatched alone after content frames:
\* the list is the one of the send and the confirmed user message
C25_Witness ==
  \E s \in StreamIds :
    /\ Callbacks(s) = <<UserCall, ThinkingCall, ContentCall(1), ErrorCall>>
    /\ stream[s].base # <<>>
    /\ messages = Append(stream[s].base, Msg("m1", "user", <<"q">>, "T1", FALSE))
    /\ error = <<"Failed to send message: ", "b">>
    /\ ~isStreaming

\* the read of a chunk has failed after content frames: onError has run
C25_TransportWitness ==
  \E s \in StreamIds :
    /\ Callbacks(s) = <<UserCall, ThinkingCall, ContentCall(1),
                        Call("onError", TransportError)>>
    /\ messages = Append(stream[s].base, Msg("m1", "user", <<"q">>, "T1", FALSE))
    /\ ~isStreaming

\* C26: the step that calls sendMessageStream leaves the call with its
\* handle, the request in flight and no callback invoked, whatever the reply
\* will be; a step in which a read fails, for another reason than abort(),
\* after frames were dispatched invokes onError once, with the message of
\* the failure, and ends the loop; from then on no step invokes a callback
\* of the stream or reads of its body.
C26_FailureWhileStreaming ==
  [][/\ sends' = sends + 1
        => /\ stream'[sends'].pc = "fetch"
           /\ stream'[sends'].calls = <<>>
           /\ stream'[sends'].ended = "no"
     /\ \A s \in StreamIds :
          /\ ( /\ stream[s].pc = "read"
               /\ Callbacks(s) # <<>>
               /\ stream'[s].ended = "error" )
             => /\ NewCalls(s) = <<Call("onError", TransportError)>>
                /\ stream'[s].pc = "done"
          /\ stream[s].ended = "error"
             => /\ Callbacks(s)' = Callbacks(s)
                /\ stream'[s].pc = "done"
                /\ stream'[s].pos = stream[s].pos]_vars

\* a read has failed while the body was being read, after a content frame
\* was dispatched and before the rest of the body arrived
C26_Witness ==
  \E s \in StreamIds :
    /\ stream[s].pc = "done"
    /\ stream[s].ended = "error"
    /\ 0 < stream[s].pos
    /\ stream[s].pos < Len(stream[s].reply.body)
    /\ Len(Callbacks(s)) = 4
    /\ Callbacks(s)[3] = ContentCall(1)
    /\ Last(Callbacks(s)) = Call("onError", TransportError)

LoadChatsAwaits(ops, kind) ==
  Len(SelectSeq(ops, LAMBDA op : op.kind = kind /\ (kind = "createChat" => op.inLoadChats)))

\* this step resumes the loadChats that awaits the call pending[i]
Resumes(i, kind) ==
  /\ Answered(i, kind)
  /\ kind = "createChat" => pending[i].inLoadChats
  /\ LoadChatsAwaits(pending', kind) < LoadChatsAwaits(pending, kind)

\* what the step that resumes loadChats after getAllChats does
AfterGetAllChats(i) ==
  IF pending[i].response = "ok"
  THEN /\ (currentChatId = Null /\ chats' # <<>>) => currentChatId' = chats'[1]
       /\ chats' # <<>> => ~loading'
       /\ chats' = <<>>
          => LoadChatsAwaits(pending', "createChat") = 1 /\ loading' = loading
  ELSE ~loading'

\* the new chat is the current chat, first of the list, with no messages
NewChatIsCurrent ==
  /\ created' = created + 1
  /\ currentChatId' = NewChatIds[created']
  /\ chats'[1] = currentChatId'
  /\ messages' = <<>>

\* C28 as stated: when getAllChats has answered with a list that is not
\* empty and no chat is selected, the first chat of the list becomes the
\* current chat; when the list is empty, createChat is awaited and, when it
\* is answered, a new chat is the current chat, with no messages; loading is
\* false when loadChats finishes, after a failure too.
C28_NewChatAlways ==
  [][\A i \in 1..Len(pending) :
       /\ Resumes(i, "getAllChats") => AfterGetAllChats(i)
       /\ Resumes(i, "createChat") => (~loading' /\ NewChatIsCurrent)]_vars

\* C28, amended: as stated, but the new chat is the current chat only when
\* createChat has succeeded; when createChat fails, loadChats finishes with
\* the error of handleNewChat shown, no chat created or selected by it, and
\* loading false.
C28_LoadChats ==
  [][\A i \in 1..Len(pending) :
       /\ Resumes(i, "getAllChats") => AfterGetAllChats(i)
       /\ Resumes(i, "createChat")
          => /\ ~loading'
             /\ IF pending[i].response = "ok"
                THEN NewChatIsCurrent
                ELSE /\ error' # ErrNull
                     /\ UNCHANGED <<currentChatId, chats, messages, created>>]_vars

\* the first loadChats has found no chat, has created one and has finished
C28_Witness ==
  /\ currentChatId = "c2"
  /\ chats = <<"c2">>
  /\ created = 1
  /\ messages = <<>>
  /\ ~loading
  /\ error = ErrNull

\* the first loadChats has found two chats and has selected the first
C28_FirstSelected ==
  /\ currentChatId = "c4"
  /\ chats = <<"c4", "c1">>
  /\ created = 0
  /\ ~loading

\* the first loadChats has found no chat and createChat has failed
C28_CreateFailed ==
  /\ currentChatId = Null
  /\ chats = <<>>
  /\ pending = <<>>
  /\ ~loading
  /\ error = <<"Failed to create new chat: ">> \o ApiCall("createChat", "http").message

\* C29: in the simulated App, the step that accepts a send appends the
\* user's message and, after it, one thinking placeholder, and sets
\* isStreaming; the step in which the timer fires leaves no message marked
\* isThinking, appends one assistant message with one of the three texts to
\* the messages that were not placeholders, and clears isStreaming; and the
\* timer does fire: whenever isStreaming is true it is false later.
C29_SimulatedSendSettles ==
  /\ [][/\ sends' = sends + 1
           => /\ Len(messages') = Len(messages) + 2
              /\ SubSeq(messages', 1, Len(messages)) = messages
              /\ messages'[Len(messages) + 1].role = "user"
              /\ messages'[Len(messages) + 1].content = inputValue
              /\ ~messages'[Len(messages) + 1].isThinking
              /\ messages'[Len(messages) + 2].role = "assistant"
              /\ messages'[Len(messages) + 2].isThinking
              /\ isStreaming'
        /\ Len(pending') < Len(pending)
           => /\ \A j \in 1..Len(messages') : ~messages'[j].isThinking
              /\ Front(messages') = SelectSeq(messages, LAMBDA msg : ~msg.isThinking)
              /\ Last(messages').role = "assistant"
              /\ Last(messages').content \in SimResponses
              /\ ~isStreaming']_vars
  /\ (isStreaming ~> ~isStreaming)

\* two sends have settled: the list is the two messages and the two replies
C29_Witness ==
  /\ sends = 2
  /\ pending = <<>>
  /\ ~isStreaming
  /\ Len(messages) = 4
  /\ messages[3].role = "user"
  /\ messages[4].content = <<"r2">>

\* stream s has ended: its body was read to the end, or the transport failed
StreamEnded(s) == stream[s].pc = "done" /\ stream[s].ended \in {"eof", "error"}

\* a terminal callback of stream s has run
Settled(s) ==
  \E i \in 1..Len(stream[s].calls) : stream[s].calls[i].cb \in {"onComplete", "onError"}

\* C30: when the stream of an accepted send has ended, by the close of the
\* connection or by a transport failure, with or without a terminal frame,
\* isStreaming is false then or later.
C30_SendSettles ==
  \A s \in StreamIds : StreamEnded(s) ~> ~isStreaming

\* the part of C30 that the code keeps: when the stream has ended and a
\* terminal callback of it has run, isStreaming is false then or later
C30_SettlesAfterTerminal ==
  \A s \in StreamIds : (StreamEnded(s) /\ Settled(s)) ~> ~isStreaming

\* the connection has closed after a content frame, no terminal frame
\* received: no callback follows and isStreaming is true
C30_SilentClose ==
  \E s \in StreamIds :
    /\ Ended(s)
    /\ stream[s].reply.body = Encode(Joined(<<ContentLine(2)>>))
    /\ stream[s].calls = <<ContentCall(2)>>
    /\ pending = <<>>
    /\ isStreaming

Terminal == {"onComplete", "onError"}

\* C31: whatever frames and transport events a call of sendMessageStream
\* meets, the callbacks it has invoked hold at most one terminal callback
\* (onComplete or onError), and it is the last of them.
C31_OneTerminal ==
  \A s \in StreamIds :
    \A i \in 1..Len(Callbacks(s)) :
      Callbacks(s)[i].cb \in Terminal => i = Len(Callbacks(s))

\* a complete frame and, after it, an error frame were both dispatched
C31_CompleteThenError ==
  \E s \in StreamIds :
    /\ stream[s].aborts = 0
    /\ stream[s].reply.body = Encode(Joined(<<CompleteLine, ErrorLine>>))
    /\ Callbacks(s) = <<CompleteCall, ErrorCall>>

\* the transport has failed after the complete frame was dispatched
C31_FailureAfterComplete ==
  \E s \in StreamIds :
    /\ stream[s].aborts = 0
    /\ stream[s].ended = "error"
    /\ Callbacks(s) = <<CompleteCall, Call("onError", TransportError)>>

\* the ids of the messages that the callbacks of stream s put in the list
StreamMessageIds(s) == {"m1", "m2", TempIds[s]}

\* C32: the displayed list holds messages of the current chat only: while
\* the chat a send was issued for is not the current chat, the list holds
\* no message that the callbacks of that send's stream have added.
C32_ListOfCurrentChat ==
  \A s \in StreamIds :
    (stream[s].pc # "idle" /\ stream[s].chatId # currentChatId)
    => \A i \in 1..Len(messages) : messages[i].id \notin StreamMessageIds(s)

\* the user has started a new chat while the stream of a send for the chat
\* before was active, and the stream has completed since: the list of the
\* new chat shows the assistant message of the old chat
C32_ForeignMessage ==
  \E s \in StreamIds :
    /\ stream[s].chatId = "c1"
    /\ currentChatId = "c2"
    /\ LastCallbackIs(s, "onComplete")
    /\ messages = <<Msg("m2", "assistant", <<"z">>, "T2", FALSE)>>

\* C33: when no message load is in flight and none has failed, the
\* displayed list is the list fetched for the chat identified by
\* currentChatId, in whatever order the loads have completed.
C33_LatestSelectionShown ==
  (pending = <<>> /\ error = ErrNull) => messages = StoredOf(currentChatId)

\* the load of the chat selected first has completed after the load of the
\* chat selected second: the list is the one of the first
C33_StaleLoadShown ==
  /\ pending = <<>>
  /\ error = ErrNull
  /\ currentChatId = "c3"
  /\ messages = StoredOf("c2")

\* C34: from the user_message callback of a send to its terminal callback
\* the message list holds the confirmed user message, exactly once,
\* whatever message load of the chat completes in between.
C34_UserMessageStays ==
  \A s \in StreamIds :
    ( /\ \E i \in 1..Len(Callbacks(s)) : Callbacks(s)[i] = UserCall
      /\ \A i \in 1..Len(Callbacks(s)) : Callbacks(s)[i].cb \notin Terminal )
    => Len(SelectSeq(messages, LAMBDA msg : msg.id = "m1")) = 1

\* the load started before the send has completed after the thinking
\* callback: the list is the one the server had stored before the send
C34_LoadReplacedStream ==
  \E s \in StreamIds :
    /\ Callbacks(s) = <<UserCall, ThinkingCall>>
    /\ stream[s].pc = "read"
    /\ pending = <<>>
    /\ messages = <<Msg("m0", "user", <<"q">>, "T0", FALSE)>>
    /\ isStreaming

\* the lines of the sentinel vocabulary whose newline is among the bytes
DoneLinesOf(bytes) ==
  LET encoded == Front(Split(bytes))
  IN  [i \in 1..Len(encoded) |-> CHOOSE line \in DoneVocabulary : Encode(line) = encoded[i]]

\* C35: the [DONE] sentinel does not end the loop: a stream that nothing
\* has disturbed ends only when all of its body was read, and at every
\* moment the callbacks invoked are those of all the frame lines received
\* so far, the ones after a sentinel line too, whether they came in the
\* chunk of the sentinel or in a later one.
C35_DoneDoesNotEnd ==
  \A s \in StreamIds :
    (stream[s].pc \in {"read", "done"} /\ Undisturbed(s))
    => /\ stream[s].pc = "done" => stream[s].pos = Len(stream[s].reply.body)
       /\ \A lines \in {DoneLinesOf(SubSeq(stream[s].reply.body, 1, stream[s].pos))} :
            stream[s].calls =
              ExpectedCalls(SelectSeq(lines, LAMBDA line : line \notin Sentinels))

\* the complete frame that follows a sentinel line was dispatched, and the
\* loop is still reading
C35_Witness ==
  \E s \in StreamIds :
    /\ stream[s].pc = "read"
    /\ Undisturbed(s)
    /\ stream[s].reply.body = Encode(Joined(<<DoneLine, CompleteLine>>))
    /\ stream[s].pos = Len(stream[s].reply.body)
    /\ stream[s].calls = <<CompleteCall>>

\* a chunk has ended with a sentinel line: nothing was dispatched and the
\* loop is reading the rest of the body
C35_AfterSentinel ==
  \E s \in StreamIds :
    /\ stream[s].pc = "read"
    /\ Undisturbed(s)
    /\ stream[s].reply.body = Encode(Joined(<<DoneLine, CompleteLine>>))
    /\ stream[s].pos = Len(DoneLine) + 1
    /\ stream[s].calls = <<>>

\* the callbacks stream s has invoked, the throws left out
Dispatched(s) == SelectSeq(stream[s].calls, LAMBDA c : c.cb # "throw")

\* C36: what a callback throws while a frame is dispatched is caught in the
\* loop: the step in which a callback throws leaves the loop reading, and
\* as long as the transport has not failed the callbacks invoked are those
\* of all the frame lines received so far, in order, with no onError added
\* for the throw, and the loop ends only when all of the body was read.
C36_ThrowCaught ==
  /\ [][\A s \in StreamIds :
          (\E j \in 1..Len(NewCalls(s)) : NewCalls(s)[j] = ThrowCall)
          => /\ stream'[s].pc = "read"
             /\ stream'[s].ended = "no"
             /\ Dispatched(s)' =
                  WholeCalls(SubSeq(stream[s].reply.body, 1, stream'[s].pos))]_vars
  /\ [](\A s \in StreamIds :
          (stream[s].pc \in {"read", "done"} /\ stream[s].ended \in {"no", "eof"})
          => /\ Dispatched(s) = WholeCalls(SubSeq(stream[s].reply.body, 1, stream[s].pos))
             /\ stream[s].pc = "done" => stream[s].pos = Len(stream[s].reply.body))

\* the thinking callback has thrown, and the content and complete frames
\* after it were dispatched
C36_Witness ==
  \E s \in StreamIds :
    /\ stream[s].ended = "eof"
    /\ stream[s].calls = <<UserCall, ThinkingCall, ThrowCall, ContentCall(1), CompleteCall>>

\* the messages of the list that have the temporary id of stream s
Temporaries(s) == SelectSeq(messages, LAMBDA msg : msg.id = TempIds[s])

\* C37: in whatever order thinking and content frames arrive, the list
\* holds at most one message with the temporary id of the send.
C37_OneTemporary ==
  \A s \in StreamIds : Len(Temporaries(s)) <= 1

\* two thinking frames have put two placeholders in the list
C37_TwoPlaceholders ==
  \E s \in StreamIds :
    /\ Callbacks(s) = <<ThinkingCall, ThinkingCall>>
    /\ Len(Temporaries(s)) = 2
    /\ \A i \in 1..Len(messages) : messages[i].isThinking

\* a thinking frame after a content frame: the list holds the message with
\* the fragment and, with the same id, a placeholder
C37_PlaceholderAfterContent ==
  \E s \in StreamIds :
    /\ Callbacks(s) = <<ContentCall(1), ThinkingCall>>
    /\ messages = <<Msg(TempIds[s], "assistant", <<"a">>, Now, FALSE),
                    Msg(TempIds[s], "assistant", NoText, Now, TRUE)>>

\* the chats deleted so far: the chat of the mount and the chats created
\* since, without the chats of the list
Deleted ==
  ({"c1"} \cup {NewChatIds[j] : j \in 1..created}) \ {chats[j] : j \in 1..Len(chats)}

\* C38: when handleDeleteChat has finished, the replacement chat it awaits
\* created or failed, the current chat is not a chat that was deleted.
C38_DeletedNotCurrent ==
  pending = <<>> => currentChatId \notin Deleted

\* the only chat was deleted and createChat has failed: the chat list is
\* empty and the deleted chat is the current chat
C38_CurrentDeleted ==
  /\ pending = <<>>
  /\ chats = <<>>
  /\ currentChatId = "c1"
  /\ created = 0
  /\ error = <<"Failed to create new chat: ">> \o ApiCall("createChat", "network").message

\* the only chat was deleted and createChat has succeeded: the new chat is
\* the current chat
C38_Replaced ==
  /\ pending = <<>>
  /\ chats = <<"c2">>
  /\ currentChatId = "c2"
  /\ created = 1

====
